---- MODULE Spec2Model ----
(***************************************************************************)
(* The order-parsing engine of backend/nlp.py, modelled at the level of    *)
(* characters.  A text is a sequence of one-character strings, so that     *)
(* str.lower, str.strip, the `in' substring test, the regular expressions  *)
(* and the similarity scorers are computed the way the code computes them. *)
(***************************************************************************)
EXTENDS Integers, Sequences, FiniteSets, TLC

VARIABLES
  lead,         \* the order verb the utterance begins with (empty for none)
  clauses,      \* the clauses of the utterance, in order
  sep,          \* the separator written between two clauses
  menu_names,   \* the menu-name list handed to parse_order
  w2n,          \* WORD2NUMBER_AVAILABLE of this build (nlp.py:20-25)
  transformers, \* TRANSFORMERS_AVAILABLE of this build (nlp.py:12-18)
  pc,           \* "ready" before a call of parse_order, "parsed" after it
                \* returned, "raised" after it raised; "normalize" in a run
                \* that applies normalize_text over and over; the name of a
                \* method before it is called on argument, "returned" after
  result,       \* what parse_order returned last (NoResult before)
  pending,      \* the utterances the process parses after this one
  history,      \* one record for every call of parse_order so far, in order
  norm,         \* the text normalize_text is applied to, then what it returned
  passes,       \* how many times normalize_text was applied to norm
  argument,     \* the text a method of RestaurantNLP is called on (for
                \* calculate_confidence, its four arguments)
  answer,       \* the method called and what it returned (NoAnswer before)
  orders,       \* the 'status' field of each document of the collection
                \* 'orders' (app.py), "absent" for a document that is not there
  cancel        \* the cancel flow of one POST /order request (app.py:208-291):
                \* where it stands and its local variables

vars ==
  << lead, clauses, sep, menu_names, w2n, transformers, pc, result, pending,
     history, norm, passes, argument, answer, orders, cancel >>

----------------------------------------------------------------------------
(* Characters *)

LowerLetters ==
  {"a","b","c","d","e","f","g","h","i","j","k","l","m",
   "n","o","p","q","r","s","t","u","v","w","x","y","z"}

\* the upper-case letters the model's texts use
UpperLetters == {"A","B","C","F","H","I","M","N","P","S","T","V","W"}

\* str.lower on these letters
UpperToLower ==
  [c \in UpperLetters |->
     CASE c = "A" -> "a" [] c = "B" -> "b" [] c = "C" -> "c" [] c = "F" -> "f"
       [] c = "H" -> "h" [] c = "I" -> "i" [] c = "M" -> "m" [] c = "N" -> "n"
       [] c = "P" -> "p" [] c = "S" -> "s" [] c = "T" -> "t" [] c = "V" -> "v"
       [] c = "W" -> "w"]

Digits == {"0","1","2","3","4","5","6","7","8","9"}

\* the value of a character matched by \d
DigitValue(c) ==
  CASE c = "0" -> 0 [] c = "1" -> 1 [] c = "2" -> 2 [] c = "3" -> 3
    [] c = "4" -> 4 [] c = "5" -> 5 [] c = "6" -> 6 [] c = "7" -> 7
    [] c = "8" -> 8 [] c = "9" -> 9

\* \w of Python's re: letters, digits and the underscore
WordChars == LowerLetters \cup UpperLetters \cup Digits \cup {"_"}
IsWordChar(c) == c \in WordChars

\* \s of Python's re, and what str.strip and str.split treat as white space
IsSpace(c) == c = " "

Max(a, b) == IF a >= b THEN a ELSE b

----------------------------------------------------------------------------
(* Strings *)

LowerChar(c) == IF c \in UpperLetters THEN UpperToLower[c] ELSE c

\* a sequence given as a function on 1..n, as a tuple
Tuple(f) == f \o <<>>

\* the one element of a set of one element.  The({e : x \in {v}}) is e with
\* x bound to the value of v, which is computed once, before e
The(S) == CHOOSE x \in S : TRUE

\* str.lower()
lower(s) == Tuple([i \in 1..Len(s) |-> LowerChar(s[i])])

\* the smallest element of a set of numbers
Least(S) == CHOOSE x \in S : \A y \in S : x <= y

\* str.strip(): what is left without the white space at both ends
strip(s) ==
  IF \A i \in 1..Len(s) : IsSpace(s[i]) THEN <<>>
  ELSE SubSeq(s, Least({i \in 1..Len(s) : ~IsSpace(s[i])}),
              Len(s) - Least({k \in 0..(Len(s) - 1) : ~IsSpace(s[Len(s) - k])}))

\* s[i:i+len(w)] == w
MatchAt(s, i, w) ==
  /\ i >= 1
  /\ i + Len(w) - 1 <= Len(s)
  /\ \A k \in 1..Len(w) : s[i + k - 1] = w[k]

\* the substring test `w in s'
Contains(s, w) == \E i \in 1..(Len(s) - Len(w) + 1) : MatchAt(s, i, w)

\* \b just before position i (i = Len(s)+1 is the end of the text)
Boundary(s, i) ==
  Cardinality({k \in {i - 1, i} : k >= 1 /\ k <= Len(s) /\ IsWordChar(s[k])}) = 1

\* \bw\b matches at position i
WordAt(s, i, w) ==
  MatchAt(s, i, w) /\ \A j \in {i, i + Len(w)} : Boundary(s, j)

\* re.search(r'\b(w1|w2|...)\b', s) for the alternatives ws
SearchWords(s, ws) == \E w \in ws : \E i \in 1..Len(s) : WordAt(s, i, w)

\* re.search(r'^\b(w1|w2|...)\b', s)
SearchWordsAtStart(s, ws) == \E w \in ws : WordAt(s, 1, w)

\* re.search(r'\b(a1|a2|...)\b.*\b(b1|b2|...)\b', s)
SearchWordsThenWords(s, as, bs) ==
  \E a \in as : \E i \in 1..Len(s) :
    /\ WordAt(s, i, a)
    /\ \E b \in bs : \E j \in (i + Len(a))..Len(s) : WordAt(s, j, b)

\* re.search(r'\b(a.*b)\b', s): no \b is asked after a or before b
SearchSpan(s, a, b) ==
  \E i \in 1..Len(s) :
    /\ Boundary(s, i) /\ MatchAt(s, i, a)
    /\ \E j \in (i + Len(a))..Len(s) : MatchAt(s, j, b) /\ Boundary(s, j + Len(b))

\* the k-th smallest element of a set of numbers
Nth(S, k) == CHOOSE x \in S : Cardinality({y \in S : y < x}) = k - 1

\* the matches of \bw\b that re.sub replaces: scanning from the left, every
\* match that does not start inside an earlier replaced match
NonOverlapping(all, n) ==
  CHOOSE sel \in SUBSET all :
    \A i \in all : i \in sel <=> ~ \E j \in sel : j < i /\ i < j + n

SubMatches(s, w) ==
  NonOverlapping({i \in 1..(Len(s) - Len(w) + 1) : s[i] = w[1] /\ WordAt(s, i, w)}, Len(w))

\* where the replacement of the match at m starts in the new text, each
\* earlier replacement having shifted it by shift
OutStart(sel, shift, m) == m + shift * Cardinality({j \in sel : j < m})

\* character p of the new text: of r inside a replacement, else the character
\* of s that the replacements before p have shifted to p
ReplacedChar(s, n, r, sel, p) ==
  The({ IF in # {}
        THEN r[p - OutStart(sel, Len(r) - n, The(in)) + 1]
        ELSE s[p - (Len(r) - n)
                     * Cardinality({m \in sel : OutStart(sel, Len(r) - n, m) + Len(r) <= p})] :
        in \in {{m \in sel : /\ OutStart(sel, Len(r) - n, m) <= p
                             /\ p < OutStart(sel, Len(r) - n, m) + Len(r)}} })

\* the text s with the matches sel, each of length n, replaced by r
Replaced(s, n, r, sel) ==
  IF sel = {} THEN s
  ELSE Tuple([p \in 1..(Len(s) + (Len(r) - n) * Cardinality(sel)) |->
                ReplacedChar(s, n, r, sel, p)])

\* re.sub(rf'\b{re.escape(w)}\b', r, s): the text with every such match
\* replaced by r.  Each replacement shifts what follows by Len(r) - Len(w).
SubWord(s, w, r) ==
  IF Len(s) < Len(w) THEN s ELSE Replaced(s, Len(w), r, SubMatches(s, w))

\* the maximal runs of the positions of s in the set inside, in text order
RunFrom(s, inside, i) ==
  SubSeq(s, i, Least({j \in i..Len(s) : j \notin inside} \cup {Len(s) + 1}) - 1)

RunsFrom(s, inside, starts) ==
  Tuple([k \in 1..Cardinality(starts) |-> RunFrom(s, inside, Nth(starts, k))])

Runs(s, inside) == RunsFrom(s, inside, {i \in inside : i - 1 \notin inside})

\* str.split(): the maximal runs of non-space characters
split(s) == Runs(s, {i \in 1..Len(s) : ~IsSpace(s[i])})

\* re.findall(r'\b\w+\b', s): the maximal runs of word characters
findall_words(s) == Runs(s, {i \in 1..Len(s) : IsWordChar(s[i])})

\* the end (exclusive) of the run of digits that starts at i; i itself when
\* s[i] is no digit
DigitsEnd(s, i) == Least({j \in i..Len(s) : s[j] \notin Digits} \cup {Len(s) + 1})

\* a run of digits starts at i
DigitsStart(s, i) == s[i] \in Digits /\ (i = 1 \/ s[i - 1] \notin Digits)

\* the end (exclusive) of the run of white space that starts at i
SpacesEnd(s, i) == Least({j \in i..Len(s) : ~IsSpace(s[j])} \cup {Len(s) + 1})

\* sys.int_info.default_max_str_digits of CPython 3.11: int() of a longer run
\* of digits raises ValueError
INT_MAX_STR_DIGITS == 4300

\* int(s[i:j]) raises, for the run of digits that starts at i
IntRaises(s, i) == DigitsEnd(s, i) - i > INT_MAX_STR_DIGITS

\* the number the digits s[i..j-1] write
RECURSIVE IntOfDigits(_, _, _)
IntOfDigits(s, i, j) ==
  IF i >= j THEN 0 ELSE IntOfDigits(s, i, j - 1) * 10 + DigitValue(s[j - 1])

\* int(s[i:j]) for the run of digits that starts at i, where it does not raise
int(s, i) == IntOfDigits(s, i, DigitsEnd(s, i))

----------------------------------------------------------------------------
(* The tables of RestaurantNLP.__init__ *)

\* self.common_mistakes, in dictionary (insertion) order: <<mistake, correction>>
common_mistakes ==
  << <<<<"p","i","z","a">>, <<"p","i","z","z","a">>>>,
     <<<<"p","i","z","z">>, <<"p","i","z","z","a">>>>,
     <<<<"b","u","g","e","r">>, <<"b","u","r","g","e","r">>>>,
     <<<<"b","u","r","g","a","r">>, <<"b","u","r","g","e","r">>>>,
     <<<<"c","o","k">>, <<"c","o","k","e">>>>,
     <<<<"c","o","k","e">>, <<"c","o","k","e">>>>,
     <<<<"c","o","f","f","e">>, <<"c","o","f","f","e","e">>>>,
     <<<<"c","o","f","f","f","e","e">>, <<"c","o","f","f","e","e">>>>,
     <<<<"c","h","i","k","e","n">>, <<"c","h","i","c","k","e","n">>>>,
     <<<<"c","h","i","k","n">>, <<"c","h","i","c","k","e","n">>>>,
     <<<<"b","e","r","y","a","n","i">>, <<"b","i","r","y","a","n","i">>>>,
     <<<<"b","i","r","i","y","a","n","i">>, <<"b","i","r","y","a","n","i">>>> >>

\* self.food_aliases, in dictionary (insertion) order: <<alias, canonical>>
food_aliases ==
  << <<<<"c","o","c","a"," ","c","o","l","a">>, <<"c","o","k","e">>>>,
     <<<<"c","o","c","a","-","c","o","l","a">>, <<"c","o","k","e">>>>,
     <<<<"c","o","l","a">>, <<"c","o","k","e">>>>,
     <<<<"p","e","p","s","i"," ","c","o","l","a">>, <<"p","e","p","s","i">>>>,
     <<<<"f","r","e","n","c","h"," ","f","r","y">>, <<"f","r","e","n","c","h"," ","f","r","i","e","s">>>>,
     <<<<"f","r","i","e","s">>, <<"f","r","e","n","c","h"," ","f","r","i","e","s">>>>,
     <<<<"c","h","i","p","s">>, <<"f","r","e","n","c","h"," ","f","r","i","e","s">>>>,
     <<<<"t","e","a">>, <<"h","o","t"," ","t","e","a">>>>,
     <<<<"c","h","a","i">>, <<"h","o","t"," ","t","e","a">>>>,
     <<<<"b","i","r","y","a","n","i">>, <<"c","h","i","c","k","e","n"," ","b","i","r","y","a","n","i">>>>,
     <<<<"m","a","r","g","h","e","r","i","t","a">>, <<"m","a","r","g","h","e","r","i","t","a"," ","p","i","z","z","a">>>>,
     <<<<"p","e","p","p","e","r","o","n","i">>, <<"p","e","p","p","e","r","o","n","i"," ","p","i","z","z","a">>>>,
     <<<<"w","i","n","g","s">>, <<"c","h","i","c","k","e","n"," ","w","i","n","g","s">>>>,
     <<<<"f","r","i","e","d"," ","c","h","i","c","k","e","n">>, <<"c","h","i","c","k","e","n"," ","w","i","n","g","s">>>> >>

\* self.quantity_words in dictionary order: <<word, value in halves>> (so that
\* 'half': 0.5 is the integer 1 and 'one': 1 is 2; int() is IntOfHalves below)
quantity_words ==
  << <<<<"o","n","e">>, 2>>,
     <<<<"t","w","o">>, 4>>,
     <<<<"t","h","r","e","e">>, 6>>,
     <<<<"f","o","u","r">>, 8>>,
     <<<<"f","i","v","e">>, 10>>,
     <<<<"s","i","x">>, 12>>,
     <<<<"s","e","v","e","n">>, 14>>,
     <<<<"e","i","g","h","t">>, 16>>,
     <<<<"n","i","n","e">>, 18>>,
     <<<<"t","e","n">>, 20>>,
     <<<<"e","l","e","v","e","n">>, 22>>,
     <<<<"t","w","e","l","v","e">>, 24>>,
     <<<<"t","h","i","r","t","e","e","n">>, 26>>,
     <<<<"f","o","u","r","t","e","e","n">>, 28>>,
     <<<<"f","i","f","t","e","e","n">>, 30>>,
     <<<<"a">>, 2>>,
     <<<<"a","n">>, 2>>,
     <<<<"s","i","n","g","l","e">>, 2>>,
     <<<<"d","o","u","b","l","e">>, 4>>,
     <<<<"t","r","i","p","l","e">>, 6>>,
     <<<<"c","o","u","p","l","e">>, 4>>,
     <<<<"f","e","w">>, 6>>,
     <<<<"s","e","v","e","r","a","l">>, 6>>,
     <<<<"d","o","z","e","n">>, 24>>,
     <<<<"h","a","l","f">>, 1>> >>

\* keys of self.generic_items, in dictionary order
generic_names ==
  << <<"p","i","z","z","a">>,
     <<"b","u","r","g","e","r">> >>

\* self.generic_items[generic_name]: the configured variants (display names)
generic_items(g) ==
  IF g = <<"p","i","z","z","a">>
  THEN << <<"C","h","i","c","k","e","n"," ","P","i","z","z","a">>,
         <<"M","a","r","g","h","e","r","i","t","a"," ","P","i","z","z","a">>,
         <<"P","e","p","p","e","r","o","n","i"," ","P","i","z","z","a">> >>
  ELSE << <<"C","h","i","c","k","e","n"," ","B","u","r","g","e","r">>,
         <<"B","e","e","f"," ","B","u","r","g","e","r">>,
         <<"F","i","s","h"," ","B","u","r","g","e","r">>,
         <<"V","e","g","g","i","e"," ","B","u","r","g","e","r">> >>

\* self.specific_indicators.get(generic_name, [])
specific_indicators(g) ==
  IF g = <<"p","i","z","z","a">>
  THEN << <<"c","h","i","c","k","e","n">>, <<"m","a","r","g","h","e","r","i","t","a">>, <<"p","e","p","p","e","r","o","n","i">>, <<"b","e","e","f">>, <<"v","e","g","g","i","e">>, <<"v","e","g","e","t","a","b","l","e">>, <<"c","h","e","e","s","e">>, <<"s","u","p","r","e","m","e">> >>
  ELSE IF g = <<"b","u","r","g","e","r">>
  THEN << <<"c","h","i","c","k","e","n">>, <<"b","e","e","f">>, <<"f","i","s","h">>, <<"v","e","g","g","i","e">>, <<"v","e","g","e","t","a","b","l","e">>, <<"c","h","e","e","s","e">> >>
  ELSE << >>

\* ordering_phrases of calculate_confidence
ordering_phrases ==
  { <<"w","a","n","t">>,
    <<"n","e","e","d">>,
    <<"o","r","d","e","r">>,
    <<"g","e","t">>,
    <<"g","i","v","e"," ","m","e">>,
    <<"i","'","l","l"," ","h","a","v","e">>,
    <<"c","a","n"," ","i"," ","h","a","v","e">> }

\* self.FUZZY_MATCH_THRESHOLD = 70, as a score in thousandths of a point
FUZZY_MATCH_THRESHOLD == 70000

\* the literal 85 of fuzzy_match_menu_item, in thousandths of a point
CONFIDENT_SCORE == 85000

\* the score 100.0 of an exact match, in thousandths of a point
EXACT_SCORE == 100000

\* Optional values: None and a present value
None == <<>>
Some(v) == <<v>>

----------------------------------------------------------------------------
(* normalize_text *)

\* one loop of normalize_text: re.sub of entries lo..hi of the table, in table
\* order.  The loop is cut in two halves run one after the other; the text is
\* empty after the first half only if it was empty before, and no entry
\* changes an empty text.
RECURSIVE ApplyTable(_, _, _, _)
ApplyTable(s, table, lo, hi) ==
  IF s = <<>> \/ lo > hi THEN s
  ELSE IF lo = hi THEN SubWord(s, table[lo][1], table[lo][2])
  ELSE ApplyTable(ApplyTable(s, table, lo, (lo + hi) \div 2),
                  table, (lo + hi) \div 2 + 1, hi)

\* the two loops of normalize_text, one after the other
ApplyTables(s, tables) ==
  ApplyTable(ApplyTable(s, tables[1], 1, Len(tables[1])), tables[2], 1, Len(tables[2]))

normalize_text(s) == ApplyTables(lower(s), <<common_mistakes, food_aliases>>)

----------------------------------------------------------------------------
(* The similarity scorers of RapidFuzz, as fuzzy_match_menu_item calls them *)

\* one row of the longest-common-subsequence table: prev is the row of the
\* characters before x, and entry j+1 of a row is the length for the first j
\* characters of b.  x is either left out (prev[j+1]) or paired with its last
\* occurrence among the first j characters of b.
SetMax(S) == CHOOSE m \in S : \A x \in S : x <= m

LcsRow(x, b, prev) ==
  The({ Tuple([j1 \in 1..Len(prev) |->
                 IF \A k \in occurrences : k >= j1 THEN prev[j1]
                 ELSE Max(prev[j1], prev[SetMax({k \in occurrences : k < j1})] + 1)]) :
        occurrences \in {{k \in 1..Len(b) : b[k] = x}} })

\* the row after characters lo..hi of a, given the row prev before them; the
\* characters are taken in order, first half then second half.  A row whose
\* last entry is Len(b) has matched all of b and no later character changes it.
RECURSIVE LcsRows(_, _, _, _, _)
LcsRows(a, b, lo, hi, prev) ==
  IF prev[Len(prev)] = Len(b) \/ lo > hi THEN prev
  ELSE IF lo = hi THEN LcsRow(a[lo], b, prev)
  ELSE LcsRows(a, b, (lo + hi) \div 2 + 1, hi,
               LcsRows(a, b, lo, (lo + hi) \div 2, prev))

\* the length of the longest common subsequence of a and b (one row per
\* character of the shorter text)
LcsOrdered(short, long) ==
  LcsRows(short, long, 1, Len(short), Tuple([j1 \in 1..(Len(long) + 1) |-> 0]))[Len(long) + 1]

Lcs(a, b) ==
  The({LcsOrdered(p[1], p[2]) : p \in {IF Len(a) <= Len(b) THEN <<a, b>> ELSE <<b, a>>}})

\* fuzz.ratio: the normalized Indel similarity 2*lcs/(len(a)+len(b)), in
\* thousandths of a point (100000 is the score 100.0)
ratio(a, b) ==
  IF Len(a) + Len(b) = 0 THEN EXACT_SCORE
  ELSE (200000 * Lcs(a, b)) \div (Len(a) + Len(b))

Alphabet ==
  <<"a","b","c","d","e","f","g","h","i","j","k","l","m",
    "n","o","p","q","r","s","t","u","v","w","x","y","z">>

LetterIndex(c) == CHOOSE i \in 1..26 : Alphabet[i] = c

\* ord(c): the code point order that str comparison and sorted() use
Ord(c) ==
  CASE c = " " -> 32 [] c = "'" -> 39 [] c = "," -> 44 [] c = "-" -> 45
    [] c = "." -> 46 [] c = ";" -> 59 [] c = "?" -> 63 [] c = "_" -> 95
    [] c \in Digits -> 48 + DigitValue(c)
    [] c \in UpperLetters -> 64 + LetterIndex(UpperToLower[c])
    [] c \in LowerLetters -> 96 + LetterIndex(c)
    [] OTHER -> 128512

\* a < b for two str
RECURSIVE StrLess(_, _)
StrLess(a, b) ==
  IF b = <<>> THEN FALSE
  ELSE IF a = <<>> THEN TRUE
  ELSE IF a[1] = b[1] THEN StrLess(Tail(a), Tail(b))
  ELSE \E o \in {[k \in 1..2 |-> Ord(<<a[1], b[1]>>[k])]} : o[1] < o[2]

\* sorted(tokens)
RECURSIVE InsertSorted(_, _)
InsertSorted(t, sorted) ==
  IF sorted = <<>> THEN <<t>>
  ELSE IF StrLess(t, sorted[1]) THEN <<t>> \o sorted
  ELSE <<sorted[1]>> \o InsertSorted(t, Tail(sorted))

RECURSIVE Sorted(_)
Sorted(tokens) ==
  IF tokens = <<>> THEN <<>>
  ELSE InsertSorted(tokens[Len(tokens)], Sorted(SubSeq(tokens, 1, Len(tokens) - 1)))

\* " ".join(tokens)
RECURSIVE join(_)
join(tokens) ==
  IF tokens = <<>> THEN <<>>
  ELSE IF Len(tokens) = 1 THEN tokens[1]
  ELSE tokens[1] \o <<" ">> \o join(Tail(tokens))

\* fuzz.token_sort_ratio: ratio of the two texts with their tokens sorted
token_sort_ratio(a, b) ==
  The({ratio(t[1], t[2]) : t \in {[k \in 1..2 |-> join(Sorted(split(<<a, b>>[k])))]}})

\* the windows of the longer text that partial_ratio aligns the shorter one
\* (of length n) with: the prefixes shorter than n, every substring of length
\* n, and the suffixes shorter than n
Windows(long, n) ==
  {SubSeq(long, 1, i) : i \in 1..(n - 1)}
    \cup {SubSeq(long, i, i + n - 1) : i \in 1..(Len(long) - n + 1)}
    \cup {SubSeq(long, i, Len(long)) : i \in (Len(long) - n + 2)..Len(long)}

PartialAligned(short, long) ==
  SetMax({0} \cup {ratio(short, w) : w \in Windows(long, Len(short))})

\* fuzz.partial_ratio: the best ratio of the shorter text against a window of
\* the longer one
partial_ratio(a, b) ==
  IF a = <<>> /\ b = <<>> THEN EXACT_SCORE
  ELSE IF a = <<>> \/ b = <<>> THEN 0
  ELSE SetMax({PartialAligned(p[1], p[2]) :
                 p \in {p \in {<<a, b>>, <<b, a>>} : Len(p[1]) <= Len(p[2])}})

\* process.extract(query, choices, scorer, limit=1)[0]: the index of the
\* first choice with the highest score
BestIndex(scores) ==
  CHOOSE i \in 1..Len(scores) :
    /\ \A j \in 1..Len(scores) : scores[j] <= scores[i]
    /\ \A j \in 1..(i - 1) : scores[j] < scores[i]

\* the loop `for menu_item in menu_names: if menu_item.lower() == matched_lower'
FirstWithLower(menu, matched_lower) ==
  menu[CHOOSE i \in 1..Len(menu) :
         /\ lower(menu[i]) = matched_lower
         /\ \A j \in 1..(i - 1) : lower(menu[j]) # matched_lower]

----------------------------------------------------------------------------
(* fuzzy_match_menu_item: None, or <<menu item, score>> *)

\* <<index, score>> of the best choice
Best(scores) == The({<<i, scores[i]>> : i \in {BestIndex(scores)}})

\* the scores of the choices under each scorer
TokenSortScores(qn, choices) ==
  Tuple([i \in 1..Len(choices) |-> token_sort_ratio(qn, choices[i])])

PartialScores(qn, choices) ==
  Tuple([i \in 1..Len(choices) |-> partial_ratio(qn, choices[i])])

\* <<best_match, best_score>> after scorer 1, whose best choice is hit
Scorer1Result(menu, choices, hit) ==
  IF hit[2] >= FUZZY_MATCH_THRESHOLD
  THEN <<Some(FirstWithLower(menu, choices[hit[1]])), hit[2]>>
  ELSE <<None, 0>>

\* Scorer2Result with a fault C18 rules out: the partial scorer is asked, and
\* its higher score taken, however confident the first scorer was
Scorer2ResultAlways(menu, choices, best, hit) ==
  IF hit[2] > best[2] /\ hit[2] >= FUZZY_MATCH_THRESHOLD
  THEN <<Some(FirstWithLower(menu, choices[hit[1]])), hit[2]>>
  ELSE best

\* <<best_match, best_score>> after scorer 2, whose best choice is hit and
\* which is asked only when the score so far is below 85
Scorer2Result(menu, choices, best, hit) ==
  IF /\ best[2] < CONFIDENT_SCORE
     /\ hit[2] > best[2]
     /\ hit[2] >= FUZZY_MATCH_THRESHOLD
  THEN <<Some(FirstWithLower(menu, choices[hit[1]])), hit[2]>>
  ELSE best

\* `if best_match: return (best_match, best_score)', else None
FuzzyResult(best) ==
  IF best[1] # None /\ best[1][1] # <<>> THEN <<best[1][1], best[2]>> ELSE None

FuzzyByScorers(qn, menu, choices) ==
  FuzzyResult(Scorer2Result(menu, choices,
                            Scorer1Result(menu, choices, Best(TokenSortScores(qn, choices))),
                            Best(PartialScores(qn, choices))))

\* the exact match of the normalized query, else the scorers
FuzzyNormalized(qn, menu, choices) ==
  IF \E i \in 1..Len(menu) : choices[i] = qn
  THEN <<menu[Least({i \in 1..Len(menu) : choices[i] = qn})], EXACT_SCORE>>
  ELSE FuzzyByScorers(qn, menu, choices)

fuzzy_match_menu_item(query, menu) ==
  IF query = <<>> \/ menu = <<>> THEN None
  ELSE FuzzyNormalized(normalize_text(query), menu,
                       Tuple([i \in 1..Len(menu) |-> lower(menu[i])]))

----------------------------------------------------------------------------
(* contains_food_items and contains_quantity *)

\* the words of a menu name longer than 3 characters
LongWords(ws) == {ws[k] : k \in {k \in 1..Len(ws) : Len(ws[k]) > 3}}

contains_food_items(s, menu) ==
  \E text_normalized \in {normalize_text(s)} :
    \/ \E i \in 1..Len(menu) : \E menu_lower \in {lower(menu[i])} :
         \E w \in {menu_lower} \cup LongWords(split(menu_lower)) :
           Contains(text_normalized, w)
    \/ \E w \in LongWords(findall_words(text_normalized)) :
         \E fuzzy_result \in {fuzzy_match_menu_item(w, menu)} :
           fuzzy_result # None /\ fuzzy_result[2] >= FUZZY_MATCH_THRESHOLD

\* re.search(r'\b\d+\b', s)
SearchNumber(s) ==
  \E i \in 1..Len(s) :
    /\ s[i] \in Digits
    /\ \A j \in {i, DigitsEnd(s, i)} : Boundary(s, j)

\* re.search(r'\b\d+x\b', s)
SearchNumberX(s) ==
  \E i \in 1..Len(s) : \E j \in {DigitsEnd(s, i)} :
    /\ s[i] \in Digits
    /\ MatchAt(s, j, <<"x">>)
    /\ \A k \in {i, j + 1} : Boundary(s, k)

contains_quantity(s) ==
  \E text_lower \in {lower(s)} :
    \/ SearchNumber(text_lower)
    \/ SearchNumberX(text_lower)
    \/ \E k \in 1..Len(quantity_words) : SearchWords(text_lower, {quantity_words[k][1]})

----------------------------------------------------------------------------
(* self.intent_patterns: one operator per intent, TRUE when one of its      *)
(* patterns is found by re.search                                           *)

view_orders_patterns(s) ==
  \/ SearchWordsThenWords(s, {<<"w","h","a","t"," ","d","i","d"," ","i">>, <<"s","h","o","w"," ","m","y">>, <<"v","i","e","w"," ","m","y">>, <<"c","h","e","c","k"," ","m","y">>, <<"m","y">>},
                             {<<"o","r","d","e","r">>, <<"o","r","d","e","r","s">>})
  \/ SearchWords(s, {<<"o","r","d","e","r"," ","h","i","s","t","o","r","y">>, <<"p","a","s","t"," ","o","r","d","e","r","s">>, <<"p","r","e","v","i","o","u","s"," ","o","r","d","e","r","s">>, <<"r","e","c","e","n","t"," ","o","r","d","e","r","s">>})
  \/ \E p \in {<<<<"w","h","a","t">>, <<"o","r","d","e","r">>>>, <<<<"w","h","i","c","h">>, <<"o","r","d","e","r">>>>} : SearchSpan(s, p[1], p[2])
  \/ SearchWordsAtStart(s, {<<"m","y"," ","o","r","d","e","r">>, <<"m","y"," ","o","r","d","e","r","s">>, <<"c","h","e","c","k"," ","o","r","d","e","r">>, <<"c","h","e","c","k"," ","o","r","d","e","r","s">>})

\* r'^\b(cancel)\b(?!.*\border\b.*\bhistory\b)'
CancelNotHistory(s) ==
  /\ SearchWordsAtStart(s, {<<"c","a","n","c","e","l">>})
  /\ ~ SearchWordsThenWords(SubSeq(s, 7, Len(s)), {<<"o","r","d","e","r">>}, {<<"h","i","s","t","o","r","y">>})

\* r'\b(don\'t want|changed my mind)\b.*\b(order)?\b': the optional group may
\* match nothing, and then the pattern ends in two \b at one place
DontWant(s) ==
  \E a \in {<<"d","o","n","'","t"," ","w","a","n","t">>, <<"c","h","a","n","g","e","d"," ","m","y"," ","m","i","n","d">>} : \E i \in 1..Len(s) :
    /\ WordAt(s, i, a)
    /\ \E j \in (i + Len(a))..(Len(s) + 1) :
         \/ Boundary(s, j)
         \/ WordAt(s, j, <<"o","r","d","e","r">>)

cancel_order_patterns(s) ==
  \/ SearchWordsThenWords(s, {<<"c","a","n","c","e","l">>, <<"r","e","m","o","v","e">>, <<"d","e","l","e","t","e">>, <<"s","t","o","p">>}, {<<"o","r","d","e","r">>, <<"m","y"," ","o","r","d","e","r">>})
  \/ DontWant(s)
  \/ CancelNotHistory(s)

show_menu_patterns(s) ==
  \/ SearchWords(s, {<<"m","e","n","u">>, <<"w","h","a","t"," ","d","o"," ","y","o","u"," ","h","a","v","e">>, <<"w","h","a","t","'","s"," ","a","v","a","i","l","a","b","l","e">>, <<"s","h","o","w">>, <<"l","i","s","t">>})
  \/ \E p \in {<<<<"s","e","e">>, <<"m","e","n","u">>>>, <<<<"m","e","n","u">>, <<"p","l","e","a","s","e">>>>, <<<<"d","i","s","p","l","a","y">>, <<"m","e","n","u">>>>,
               <<<<"w","h","a","t">>, <<"a","v","a","i","l","a","b","l","e">>>>, <<<<"a","v","a","i","l","a","b","l","e">>, <<"i","t","e","m","s">>>>} :
       SearchSpan(s, p[1], p[2])

greeting_patterns(s) ==
  \/ SearchWordsAtStart(s, {<<"h","e","l","l","o">>, <<"h","i">>, <<"h","e","y">>, <<"g","o","o","d"," ","m","o","r","n","i","n","g">>, <<"g","o","o","d"," ","a","f","t","e","r","n","o","o","n">>,
                            <<"g","o","o","d"," ","e","v","e","n","i","n","g">>})
  \/ SearchWordsAtStart(s, {<<"h","o","w"," ","a","r","e"," ","y","o","u">>, <<"w","h","a","t","'","s"," ","u","p">>, <<"g","r","e","e","t","i","n","g","s">>})

help_patterns(s) ==
  \/ SearchWords(s, {<<"h","e","l","p">>, <<"h","o","w">>, <<"w","h","a","t"," ","c","a","n">>, <<"a","s","s","i","s","t">>})
  \/ SearchWords(s, {<<"s","u","p","p","o","r","t">>, <<"g","u","i","d","e">>, <<"i","n","s","t","r","u","c","t","i","o","n","s">>})

\* r'\b\d+\b.*\b(pizza|burger|chicken|coke|tea|coffee)\b'
NumberThenFood(s) ==
  \E i \in 1..Len(s) : \E e \in {DigitsEnd(s, i)} :
    /\ s[i] \in Digits
    /\ \A j \in {i, e} : Boundary(s, j)
    /\ \E b \in {<<"p","i","z","z","a">>, <<"b","u","r","g","e","r">>, <<"c","h","i","c","k","e","n">>, <<"c","o","k","e">>, <<"t","e","a">>, <<"c","o","f","f","e","e">>} :
         \E j \in e..Len(s) : WordAt(s, j, b)

order_food_patterns(s) ==
  \/ SearchWords(s, {<<"w","a","n","t">>, <<"n","e","e","d">>, <<"o","r","d","e","r">>, <<"g","e","t">>, <<"g","i","v","e"," ","m","e">>, <<"i","'","l","l"," ","h","a","v","e">>, <<"c","a","n"," ","i"," ","h","a","v","e">>})
  \/ SearchWords(s, {<<"p","i","z","z","a">>, <<"b","u","r","g","e","r">>, <<"c","h","i","c","k","e","n">>, <<"f","o","o","d">>, <<"d","r","i","n","k">>, <<"e","a","t">>})
  \/ NumberThenFood(s)

----------------------------------------------------------------------------
(* classify_intent *)

\* candidate_intents, the labels the zero-shot classifier chooses among
candidate_intents ==
  {"order_food", "show_menu", "cancel_order", "view_orders", "greeting", "help"}

\* What self.intent_classifier does in a call: it is None ("absent"), it
\* raises ("raises"), its best score is at most 0.5 ("unsure"), or it returns
\* one of candidate_intents with a score above 0.5
ClassifierOutcomes == {"absent", "raises", "unsure"} \cup candidate_intents

\* One call of classify_intent as the classifier takes part in it: it is not
\* reached ("unasked"), it is None ("absent"), the call of it raises
\* ("raises"), or it returns result['labels'][0] = label with
\* result['scores'][0] = score, in thousandths
ClassifierCalls ==
  {[status |-> st, label |-> "none", score |-> 0] : st \in {"unasked", "absent", "raises"}}
    \cup {[status |-> "answers", label |-> l, score |-> sc] :
            l \in candidate_intents, sc \in {200, 500, 501, 990}}

\* Outcome with a fault C22 rules out: a score of exactly 0.5 is accepted
OutcomeAtHalf(call) ==
  IF call.status # "answers" THEN call.status
  ELSE IF call.score >= 500 THEN call.label
  ELSE "unsure"

\* `if confidence > 0.5: return intent': the outcome of a call
Outcome(call) ==
  IF call.status # "answers" THEN call.status
  ELSE IF call.score > 500 THEN call.label
  ELSE "unsure"

\* RuleOf with a fault C11 rules out: the cancel_order patterns are tried
\* before the view_orders patterns
RuleOfCancelFirst(text_lower, s, food) ==
  IF text_lower = <<>> THEN "unknown"
  ELSE IF cancel_order_patterns(text_lower) THEN "cancel_order"
  ELSE IF view_orders_patterns(text_lower) THEN "view_orders"
  ELSE IF show_menu_patterns(text_lower) THEN "show_menu"
  ELSE IF greeting_patterns(text_lower) THEN "greeting"
  ELSE IF help_patterns(text_lower) THEN "help"
  ELSE IF food THEN "order_food"
  ELSE IF order_food_patterns(text_lower) THEN "order_food"
  ELSE "none"

\* the rules of classify_intent before the classifier, for the stripped
\* lower-case text: an intent, or "none".  food is contains_food_items
RuleOf(text_lower, s, food) ==
  IF text_lower = <<>> THEN "unknown"
  ELSE IF view_orders_patterns(text_lower) THEN "view_orders"
  ELSE IF cancel_order_patterns(text_lower) THEN "cancel_order"
  ELSE IF show_menu_patterns(text_lower) THEN "show_menu"
  ELSE IF greeting_patterns(text_lower) THEN "greeting"
  ELSE IF help_patterns(text_lower) THEN "help"
  ELSE IF food /\ contains_quantity(s) THEN "order_food"
  ELSE IF food THEN "order_food"
  ELSE IF order_food_patterns(text_lower) THEN "order_food"
  ELSE "none"

RuleIntent(s, menu) == RuleOf(strip(lower(s)), s, contains_food_items(s, menu))

classify_intent(s, menu, classifier) ==
  The({ IF rule # "none" THEN rule
        ELSE IF classifier \in candidate_intents THEN classifier
        ELSE "unknown" :
        rule \in {RuleIntent(s, menu)} })

----------------------------------------------------------------------------
(* extract_quantity_from_text: None, or Some(quantity) *)

\* int(num) of a quantity_words value, which the table holds in halves
IntOfHalves(h) == h \div 2

\* None for no match, or Some(where the leftmost match starts)
FirstOf(hits) == IF hits = {} THEN None ELSE Some(Least(hits))

\* re.search(r'(\d+)x', s): None, or Some(where group 1 starts).  \d+ takes a
\* whole run of digits, so the leftmost match starts where a run starts.
SearchDigitsX(s) ==
  FirstOf({i \in 1..Len(s) : DigitsStart(s, i) /\ MatchAt(s, DigitsEnd(s, i), <<"x">>)})

\* re.search(r'\b(\d+)\b', s): None, or Some(where group 1 starts)
SearchDigits(s) ==
  FirstOf({i \in 1..Len(s) :
             s[i] \in Digits /\ \A j \in {i, DigitsEnd(s, i)} : Boundary(s, j)})

\* QuantityDigits with a fault C19 rules out: the bare integer is tried
\* before the digits in front of an x
QuantityDigitsBareFirst(text_lower) ==
  The({ IF m2 # None THEN m2 ELSE SearchDigitsX(text_lower) :
        m2 \in {SearchDigits(text_lower)} })

\* Patterns 1 and 2: None, or Some(where the digits start that int() converts)
QuantityDigits(text_lower) ==
  The({ IF m1 # None THEN m1 ELSE SearchDigits(text_lower) :
        m1 \in {SearchDigitsX(text_lower)} })

\* american_number_system of word2number, for the number words up to twenty
w2n_numbers ==
  << <<<<"z","e","r","o">>, 0>>, <<<<"o","n","e">>, 1>>, <<<<"t","w","o">>, 2>>, <<<<"t","h","r","e","e">>, 3>>, <<<<"f","o","u","r">>, 4>>,
     <<<<"f","i","v","e">>, 5>>, <<<<"s","i","x">>, 6>>, <<<<"s","e","v","e","n">>, 7>>, <<<<"e","i","g","h","t">>, 8>>, <<<<"n","i","n","e">>, 9>>,
     <<<<"t","e","n">>, 10>>, <<<<"e","l","e","v","e","n">>, 11>>, <<<<"t","w","e","l","v","e">>, 12>>, <<<<"t","h","i","r","t","e","e","n">>, 13>>,
     <<<<"f","o","u","r","t","e","e","n">>, 14>>, <<<<"f","i","f","t","e","e","n">>, 15>>, <<<<"s","i","x","t","e","e","n">>, 16>>, <<<<"s","e","v","e","n","t","e","e","n">>, 17>>,
     <<<<"e","i","g","h","t","e","e","n">>, 18>>, <<<<"n","i","n","e","t","e","e","n">>, 19>>, <<<<"t","w","e","n","t","y">>, 20>> >>

\* the value of a token that is a number word, as a sequence of one number,
\* and the empty sequence for any other token
NumberOf(token) ==
  FirstOf({w2n_numbers[k][2] : k \in {k \in DOMAIN w2n_numbers : w2n_numbers[k][1] = token}})

\* the values of the tokens that are number words, in text order
RECURSIVE CleanNumbers(_)
CleanNumbers(tokens) ==
  IF tokens = <<>> THEN <<>>
  ELSE NumberOf(tokens[1]) \o CleanNumbers(Tail(tokens))

\* number_formation of word2number, for up to four number words; None when
\* there is none (word_to_num raises)
NumberFormation(n) ==
  IF n = <<>> THEN None
  ELSE IF Len(n) = 4 THEN Some(n[1] * n[2] + n[3] + n[4])
  ELSE IF Len(n) = 3 THEN Some(n[1] * n[2] + n[3])
  ELSE IF Len(n) = 2 THEN Some(n[1] + n[2])
  ELSE Some(n[1])

\* w2n.word_to_num(s): None when it raises (no number word in s), otherwise
\* Some(number)
word_to_num(s) == NumberFormation(CleanNumbers(split(s)))

\* Pattern 4: the first entry of quantity_words, in table order, found in s
QuantityWord(s) ==
  The({ IF ks = {} THEN None ELSE Some(IntOfHalves(quantity_words[Least(ks)][2])) :
        ks \in {{k \in DOMAIN quantity_words : SearchWords(s, {quantity_words[k][1]})}} })

\* Patterns 3 and 4: word2number where it is installed and does not raise,
\* else the table of quantity words
WordQuantity(text_lower, word2number) ==
  The({ IF n # None THEN n ELSE QuantityWord(text_lower) :
        n \in {IF word2number THEN word_to_num(text_lower) ELSE None} })

\* the call raises: Patterns 1 and 2 call int() outside any try
extract_quantity_from_text_raises(s) ==
  \E text_lower \in {strip(lower(s))} : \E m \in {QuantityDigits(text_lower)} :
    m # None /\ IntRaises(text_lower, m[1])

\* what the call returns where it does not raise
extract_quantity_from_text(s, word2number) ==
  The({ The({ IF m # None THEN Some(int(text_lower, m[1]))
              ELSE WordQuantity(text_lower, word2number) :
              m \in {QuantityDigits(text_lower)} }) :
        text_lower \in {strip(lower(s))} })

----------------------------------------------------------------------------
(* extract_quantities_and_items_together *)

\* IsSeparatorAt with a fault C2 rules out: only the word `and' separates
IsSeparatorAtAndOnly(s, i) == WordAt(s, i, <<"a","n","d">>)

\* re.split(r'\band\b|,|;', s): the parts of s from position i on
IsSeparatorAt(s, i) == WordAt(s, i, <<"a","n","d">>) \/ s[i] \in {",", ";"}

RECURSIVE SplitParts(_, _)
SplitParts(s, i) ==
  The({ IF found = None THEN <<SubSeq(s, i, Len(s))>>
        ELSE <<SubSeq(s, i, found[1] - 1)>>
               \o SplitParts(s, IF s[found[1]] \in {",", ";"}
                                THEN found[1] + 1 ELSE found[1] + 3) :
        found \in {FirstOf({j \in i..Len(s) : IsSeparatorAt(s, j)})} })

\* ExactSubstring with a fault C29 rules out: the lower-cased name that was
\* found in the part is kept, not the menu item
ExactSubstringLowered(part, menu) ==
  The({ IF hits = {} THEN None ELSE <<lower(menu[Least(hits)]), EXACT_SCORE>> :
        hits \in {{i \in 1..Len(menu) : Contains(part, lower(menu[i]))}} })

\* Method 1: the first menu item whose lower-cased name is a substring of part
ExactSubstring(part, menu) ==
  The({ IF hits = {} THEN None ELSE <<menu[Least(hits)], EXACT_SCORE>> :
        hits \in {{i \in 1..Len(menu) : Contains(part, lower(menu[i]))}} })

\* `if fuzzy_result and fuzzy_result[1] > match_score'
BetterMatch(best, fuzzy_result) ==
  IF fuzzy_result # None /\ fuzzy_result[2] > (IF best = None THEN 0 ELSE best[2])
  THEN fuzzy_result ELSE best

\* Method 3: fuzzy match of the first k words of part, those longer than 3
\* characters, a later word replacing the match only with a strictly higher
\* score; start is matched_item and match_score before the loop
RECURSIVE FuzzyWords(_, _, _, _)
FuzzyWords(words, k, menu, start) ==
  IF k = 0 THEN start
  ELSE BetterMatch(FuzzyWords(words, k - 1, menu, start),
                   IF Len(words[k]) > 3 THEN fuzzy_match_menu_item(words[k], menu) ELSE None)

\* `if matched_item': a match whose menu name is not empty
Found(m) == m # None /\ m[1] # <<>>

\* Method 2, after Method 1 gave m1: fuzzy match of the whole part
MatchWhole(part, menu, m1) ==
  IF Found(m1) THEN m1
  ELSE The({IF f # None THEN f ELSE m1 : f \in {fuzzy_match_menu_item(part, menu)}})

\* Method 3, after Method 2 gave m2: fuzzy match of the words of the part
MatchWords(part, menu, m2) ==
  IF Found(m2) THEN m2
  ELSE The({FuzzyWords(words, Len(words), menu, m2) : words \in {findall_words(part)}})

\* the menu item one part resolves to: None, or <<menu item, score>>.  An
\* empty menu name is falsy in `if not matched_item' and `if matched_item'.
MatchPart(part, menu) ==
  The({ IF Found(m3) THEN m3 ELSE None :
        m3 \in {MatchWords(part, menu, MatchWhole(part, menu, ExactSubstring(part, menu)))} })

\* items_dict, a dictionary in insertion order, as a sequence of <<item, total>>
DictHas(d, item) == \E k \in 1..Len(d) : d[k][1] = item

\* DictAdd with the fault C6 rules out: the last write wins
DictPut(d, item, quantity) ==
  IF DictHas(d, item)
  THEN Tuple([k \in 1..Len(d) |->
                IF d[k][1] = item THEN <<item, quantity>> ELSE d[k]])
  ELSE Append(d, <<item, quantity>>)

\* items_dict[item] += quantity, on a defaultdict(int)
DictAdd(d, item, quantity) ==
  IF DictHas(d, item)
  THEN Tuple([k \in 1..Len(d) |->
                IF d[k][1] = item THEN <<item, d[k][2] + quantity>> ELSE d[k]])
  ELSE Append(d, <<item, quantity>>)

\* `if quantity is None: quantity = 1'
QuantityOrOne(q) == IF q = None THEN 1 ELSE q[1]

\* one pass of the loop over the parts, for the stripped part:
\* <<items_dict, unclear_items>> after it, given the two before it
ClauseStep(before, part, menu, word2number) ==
  IF part = <<>> THEN before
  ELSE The({ IF matched # None
             THEN << DictAdd(before[1], matched[1],
                             QuantityOrOne(extract_quantity_from_text(part, word2number))),
                     before[2] >>
             ELSE <<before[1], Append(before[2], part)>> :
             matched \in {MatchPart(part, menu)} })

\* ClauseLoop with a fault C16 rules out: items_dict is not made anew in a
\* call but starts with the totals the call before returned
RECURSIVE ClauseLoopKeepingTotals(_, _, _, _)
ClauseLoopKeepingTotals(parts, k, menu, word2number) ==
  IF k = 0
  THEN << IF "items" \in DOMAIN result /\ Len(result.quantities) = Len(result.items)
          THEN Tuple([i \in 1..Len(result.items) |->
                        <<result.items[i], result.quantities[i]>>])
          ELSE <<>>,
          (<<>>) >>
  ELSE ClauseStep(ClauseLoopKeepingTotals(parts, k - 1, menu, word2number),
                  strip(parts[k]), menu, word2number)

\* the loop over the parts, after the first k of them:
\* <<items_dict, unclear_items>>
RECURSIVE ClauseLoop(_, _, _, _)
ClauseLoop(parts, k, menu, word2number) ==
  IF k = 0 THEN <<(<<>>), (<<>>)>>
  ELSE ClauseStep(ClauseLoop(parts, k - 1, menu, word2number), strip(parts[k]),
                  menu, word2number)

\* the alternatives of rf'(\d+)\s*{item}|{item}\s*(\d+)|(\d+)x\s*{item}' that
\* match at position i.  (Menu names begin with a letter, so \d+ takes a
\* whole run of digits and a match of the first or third alternative starts
\* where a run starts.)
NearbyAlternatives(s, item, i) ==
  {n \in 1..3 :
     CASE n = 1 -> DigitsStart(s, i) /\ MatchAt(s, SpacesEnd(s, DigitsEnd(s, i)), item)
       [] n = 2 -> /\ MatchAt(s, i, item)
                   /\ \E e \in {SpacesEnd(s, i + Len(item))} : DigitsEnd(s, e) > e
       [] n = 3 -> /\ DigitsStart(s, i)
                   /\ MatchAt(s, DigitsEnd(s, i), <<"x">>)
                   /\ MatchAt(s, SpacesEnd(s, DigitsEnd(s, i) + 1), item)}

\* where the group of the match at i starts: after the item for the second
\* alternative, at i for the others.  Where two alternatives match at one
\* place, the earlier one is taken.
NearbyGroup(s, item, i) ==
  IF Least(NearbyAlternatives(s, item, i)) = 2 THEN SpacesEnd(s, i + Len(item)) ELSE i

\* re.search of that pattern in s: None, or Some(where the group that matched
\* starts), for the leftmost match
NearbyQuantity(s, item) ==
  The({ IF found = None THEN None ELSE Some(NearbyGroup(s, item, found[1])) :
        found \in {FirstOf({i \in 1..Len(s) : NearbyAlternatives(s, item, i) # {}})} })

\* `qty = int(qty_str) if qty_str else 1', and 1 without a match
NearbyQty(text_normalized, menu_lower) ==
  The({ IF nearby = None THEN 1 ELSE int(text_normalized, nearby[1]) :
        nearby \in {NearbyQuantity(text_normalized, menu_lower)} })

\* FinalStep with a fault C13 rules out: an item caught in the final pass is
\* put in front of the items the parts resolved to
FinalStepInFront(before, menu_item, text_normalized) ==
  IF Contains(text_normalized, lower(menu_item)) /\ ~DictHas(before, menu_item)
  THEN <<(<<menu_item, NearbyQty(text_normalized, lower(menu_item))>>)>> \o before
  ELSE before

\* FinalStep with a fault C23 rules out: the test `not in items_dict' is
\* missing, and what stands next to a name in the text is added to the total
\* its parts gave it
FinalStepAdding(before, menu_item, text_normalized) ==
  IF Contains(text_normalized, lower(menu_item))
  THEN DictAdd(before, menu_item, NearbyQty(text_normalized, lower(menu_item)))
  ELSE before

\* one pass of the final loop over the menu names: items_dict after it
FinalStep(before, menu_item, text_normalized) ==
  IF Contains(text_normalized, lower(menu_item)) /\ ~DictHas(before, menu_item)
  THEN Append(before, <<menu_item, NearbyQty(text_normalized, lower(menu_item))>>)
  ELSE before

\* the final pass over the first k menu names: items_dict afterwards
RECURSIVE FinalPass(_, _, _, _)
FinalPass(menu, k, text_normalized, d) ==
  IF k = 0 THEN d
  ELSE FinalStep(FinalPass(menu, k - 1, text_normalized, d), menu[k], text_normalized)

\* the final pass raises: int() raises for a menu name that no part resolved to
FinalPassRaises(menu, text_normalized, d) ==
  \E i \in 1..Len(menu) : \E menu_lower \in {lower(menu[i])} :
    /\ Contains(text_normalized, menu_lower)
    /\ ~DictHas(d, menu[i])
    /\ \E nearby \in {NearbyQuantity(text_normalized, menu_lower)} :
         nearby # None /\ IntRaises(text_normalized, nearby[1])

\* an exception that leaves a call, as the value of the call
Raised(exception) == <<exception>>

\* a part for which extract_quantity_from_text raises
PartRaises(part) == part # <<>> /\ extract_quantity_from_text_raises(part)

\* `items = list(items_dict.keys())' and the quantities in the same order
DictLists(items_dict, unclear_items) ==
  << Tuple([k \in 1..Len(items_dict) |-> items_dict[k][1]]),
     Tuple([k \in 1..Len(items_dict) |-> items_dict[k][2]]),
     unclear_items >>

\* <<items, quantities, unclear_items>>, or Raised("ValueError") when int()
\* raises for a part or in the final pass.  Read from the bottom: the text is
\* normalized, then split, then the loop over the parts runs, then the final
\* pass.
extract_quantities_and_items_together(s, menu, word2number) ==
  The({ The({ IF \E k \in 1..Len(parts) : PartRaises(strip(parts[k]))
              THEN Raised("ValueError")
              ELSE The({ IF FinalPassRaises(menu, text_normalized, loop[1])
                         THEN Raised("ValueError")
                         ELSE DictLists(FinalPass(menu, Len(menu), text_normalized, loop[1]),
                                        loop[2]) :
                         loop \in {ClauseLoop(parts, Len(parts), menu, word2number)} }) :
              parts \in {SplitParts(text_normalized, 1)} }) :
        text_normalized \in {normalize_text(s)} })

----------------------------------------------------------------------------
(* has_specific_type and check_generic_items *)

\* re.search(rf'\b{a}\s+{b}\b', s)
SearchAdjacent(s, a, b) ==
  \E i \in 1..Len(s) :
    /\ Boundary(s, i) /\ MatchAt(s, i, a)
    /\ SpacesEnd(s, i + Len(a)) > i + Len(a)
    /\ MatchAt(s, SpacesEnd(s, i + Len(a)), b)
    /\ Boundary(s, SpacesEnd(s, i + Len(a)) + Len(b))

has_specific_type(s, generic_name) ==
  \E text_lower \in {lower(s)} :
    \E k \in 1..Len(specific_indicators(generic_name)) :
      \E indicator \in {specific_indicators(generic_name)[k]} :
        \/ SearchAdjacent(text_lower, indicator, generic_name)
        \/ SearchAdjacent(text_lower, generic_name, indicator)

\* the body of the loop of check_generic_items for one category: TRUE when
\* the loop returns this category
OnlyGeneric(s, text_normalized, menu, generic_name) ==
  /\ SearchWords(text_normalized, {generic_name})
  /\ ~has_specific_type(s, generic_name)
  /\ ~ \E i \in 1..Len(menu) :
         /\ Contains(text_normalized, lower(menu[i]))
         /\ Len(split(lower(menu[i]))) > 1

\* the categories, by their place in the table, for which the loop would return
GenericHits(s, text_normalized, menu) ==
  {k \in 1..Len(generic_names) : OnlyGeneric(s, text_normalized, menu, generic_names[k])}

\* check_generic_items with a fault C7 rules out: the last category, in
\* table order, is returned instead of the first
check_generic_items_last(s, menu) ==
  The({ IF hits = {} THEN None ELSE Some(generic_names[SetMax(hits)]) :
        hits \in {GenericHits(s, normalize_text(s), menu)} })

\* None, or Some(the first category, in table order, that the loop returns)
check_generic_items(s, menu) ==
  The({ IF hits = {} THEN None ELSE Some(generic_names[Least(hits)]) :
        hits \in {GenericHits(s, normalize_text(s), menu)} })

----------------------------------------------------------------------------
(* calculate_confidence, in thousandths *)

\* round(x, 2) of a confidence in thousandths: the nearest hundredth
Round2(milli) == ((milli + 5) \div 10) * 10

\* Clamp with the fault C10 rules out: the sum is returned as it is
NoClamp(milli) == milli

\* max(0.0, min(1.0, confidence))
Clamp(milli) == IF milli < 0 THEN 0 ELSE IF milli > 1000 THEN 1000 ELSE milli

\* calculate_confidence with a fault C24 rules out: a number in the text
\* adds 0.1 whatever the intent is
calculate_confidence_any_number(s, intent, items, quantities) ==
  Round2(Clamp(
    500
    + (IF intent \in {"greeting", "help", "show_menu", "cancel_order", "view_orders"}
       THEN 300
       ELSE IF intent = "order_food" THEN (IF items # <<>> THEN 300 ELSE -200)
       ELSE 0)
    + (IF items # <<>>
       THEN 200 + (IF Len(quantities) = Len(items) THEN 100 ELSE 0)
       ELSE 0)
    + (IF \E text_lower \in {lower(s)} :
            \E phrase \in ordering_phrases : Contains(text_lower, phrase)
       THEN 100 ELSE 0)
    + (IF SearchNumber(s) THEN 100 ELSE 0)))

\* calculate_confidence with a fault C27 rules out: an order without items
\* loses nothing
calculate_confidence_no_penalty(s, intent, items, quantities) ==
  Round2(Clamp(
    500
    + (IF intent \in {"greeting", "help", "show_menu", "cancel_order", "view_orders"}
       THEN 300
       ELSE IF intent = "order_food" THEN (IF items # <<>> THEN 300 ELSE 0)
       ELSE 0)
    + (IF items # <<>>
       THEN 200 + (IF Len(quantities) = Len(items) THEN 100 ELSE 0)
       ELSE 0)
    + (IF \E text_lower \in {lower(s)} :
            \E phrase \in ordering_phrases : Contains(text_lower, phrase)
       THEN 100 ELSE 0)
    + (IF SearchNumber(s) /\ intent = "order_food" THEN 100 ELSE 0)))

\* 0.5 and what each `confidence += ...' adds to it
calculate_confidence(s, intent, items, quantities) ==
  Round2(Clamp(
    500
    + (IF intent \in {"greeting", "help", "show_menu", "cancel_order", "view_orders"}
       THEN 300
       ELSE IF intent = "order_food" THEN (IF items # <<>> THEN 300 ELSE -200)
       ELSE 0)
    + (IF items # <<>>
       THEN 200 + (IF Len(quantities) = Len(items) THEN 100 ELSE 0)
       ELSE 0)
    + (IF \E text_lower \in {lower(s)} :
            \E phrase \in ordering_phrases : Contains(text_lower, phrase)
       THEN 100 ELSE 0)
    + (IF SearchNumber(s) /\ intent = "order_food" THEN 100 ELSE 0)))

----------------------------------------------------------------------------
(* parse_order *)

\* the dictionary parse_order returns
ParseResult(intent, items, quantities, confidence, needs_clarification, clarification_type, available_options, unclear_items) ==
  [ intent |-> intent,
    items |-> items,
    quantities |-> quantities,
    confidence |-> confidence,
    needs_clarification |-> needs_clarification,
    clarification_type |-> clarification_type,
    available_options |-> available_options,
    unclear_items |-> unclear_items ]

\* `if not text or not text.strip()': the result for an empty utterance
EmptyResult == ParseResult("unknown", <<>>, <<>>, 0, FALSE, None, <<>>, <<>>)

\* parse_order raises: nothing in it catches what int() raises
RaisedResult(exception) == [raised |-> exception]

\* `quantity = ... or 1': 1 for None and for 0
OrOne(q) == IF q = None \/ q[1] = 0 THEN 1 ELSE q[1]

\* the name is one of the menu names of the call
OnMenu(name) == \E i \in 1..Len(menu_names) : menu_names[i] = name

\* GenericClarification with a change C25 tells from the code: only the
\* variants on the menu of the call are offered
GenericClarificationOnMenu(s, intent, generic_item, quantities) ==
  ParseResult(intent, <<>>, quantities,
              calculate_confidence(s, intent, <<>>, quantities),
              TRUE, Some(generic_item),
              SelectSeq(generic_items(generic_item), OnMenu), <<>>)

\* the result of the branch `if generic_item:' with these quantities
GenericClarification(s, intent, generic_item, quantities) ==
  ParseResult(intent, <<>>, quantities,
              calculate_confidence(s, intent, <<>>, quantities),
              TRUE, Some(generic_item), generic_items(generic_item), <<>>)

\* GenericResult with a fault C17 rules out: the first configured variant of
\* the category is ordered on the user's behalf
GenericResultFirstVariant(s, intent, generic_item, word2number) ==
  IF extract_quantity_from_text_raises(s) THEN RaisedResult("ValueError")
  ELSE ParseResult(intent, <<generic_items(generic_item)[1]>>,
                   <<OrOne(extract_quantity_from_text(s, word2number))>>,
                   1000, FALSE, None, <<>>, <<>>)

\* GenericResult with a fault C1 rules out: the quantity of the category is
\* left out of the result
GenericResultWithoutQuantity(s, intent, generic_item, word2number) ==
  IF extract_quantity_from_text_raises(s) THEN RaisedResult("ValueError")
  ELSE GenericClarification(s, intent, generic_item, <<>>)

\* the branch `if generic_item:' of parse_order
GenericResult(s, intent, generic_item, word2number) ==
  IF extract_quantity_from_text_raises(s) THEN RaisedResult("ValueError")
  ELSE GenericClarification(s, intent, generic_item,
                            <<OrOne(extract_quantity_from_text(s, word2number))>>)

\* Extracted with a fault C30 rules out: clarification_type names the
\* unclear parts whenever there are any, asked about or not
ExtractedNamingAlways(s, intent, items, quantities, unclear_items) ==
  The({ ParseResult(intent, items, quantities,
                    calculate_confidence(s, intent, items, quantities),
                    unclear,
                    IF unclear_items # <<>> THEN Some(<<"u","n","c","l","e","a","r","_","i","t","e","m","s">>) ELSE None,
                    IF unclear THEN unclear_items ELSE <<>>,
                    unclear_items) :
        unclear \in {items = <<>> /\ unclear_items # <<>>} })

\* Extracted with a fault C21 rules out: the unclear parts are asked about
\* although some part resolved to an item
ExtractedAskingAlways(s, intent, items, quantities, unclear_items) ==
  The({ ParseResult(intent, items, quantities,
                    calculate_confidence(s, intent, items, quantities),
                    unclear,
                    IF unclear THEN Some(<<"u","n","c","l","e","a","r","_","i","t","e","m","s">>) ELSE None,
                    IF unclear THEN unclear_items ELSE <<>>,
                    unclear_items) :
        unclear \in {unclear_items # <<>>} })

\* the result of the branch `else:' with what the extractor returned:
\* `if not items and unclear_items' asks about the unclear parts
Extracted(s, intent, items, quantities, unclear_items) ==
  The({ ParseResult(intent, items, quantities,
                    calculate_confidence(s, intent, items, quantities),
                    unclear,
                    IF unclear THEN Some(<<"u","n","c","l","e","a","r","_","i","t","e","m","s">>) ELSE None,
                    IF unclear THEN unclear_items ELSE <<>>,
                    unclear_items) :
        unclear \in {items = <<>> /\ unclear_items # <<>>} })

\* ExtractResult with the fault C4 rules out: one unclear part and the whole
\* order is turned into a clarification
ExtractResultAllOrNothing(s, intent, menu, word2number) ==
  The({ IF Len(e) = 1 THEN RaisedResult(e[1])
        ELSE Extracted(s, intent,
                       IF e[3] # <<>> THEN <<>> ELSE e[1],
                       IF e[3] # <<>> THEN <<>> ELSE e[2],
                       e[3]) :
        e \in {extract_quantities_and_items_together(s, menu, word2number)} })

\* the branch `else:' of parse_order: the extractor, and the unclear-items
\* clarification when it resolves nothing
ExtractResult(s, intent, menu, word2number) ==
  The({ IF Len(e) = 1 THEN RaisedResult(e[1])
        ELSE Extracted(s, intent, e[1], e[2], e[3]) :
        e \in {extract_quantities_and_items_together(s, menu, word2number)} })

\* ParseIntent with a fault C12 rules out: the items are extracted whatever
\* the intent is
ParseIntentAnyIntent(s, intent, menu, word2number) ==
  The({ IF generic_item # None
        THEN GenericResult(s, intent, generic_item[1], word2number)
        ELSE ExtractResult(s, intent, menu, word2number) :
        generic_item \in {check_generic_items(s, menu)} })

\* parse_order after `intent = nlp.classify_intent(text, menu_names)'
ParseIntent(s, intent, menu, word2number) ==
  IF intent # "order_food"
  THEN ParseResult(intent, <<>>, <<>>,
                   calculate_confidence(s, intent, <<>>, <<>>),
                   FALSE, None, <<>>, <<>>)
  ELSE The({ IF generic_item # None
             THEN GenericResult(s, intent, generic_item[1], word2number)
             ELSE ExtractResult(s, intent, menu, word2number) :
             generic_item \in {check_generic_items(s, menu)} })

\* ParseStripped with a fault C14 rules out: a blank utterance is classified
\* and scored like any other
ParseStrippedUnguarded(s, menu, word2number, classifier) ==
  ParseIntent(s, classify_intent(s, menu, classifier), menu, word2number)

\* parse_order after `text = text.strip()'
ParseStripped(s, menu, word2number, classifier) ==
  IF s = <<>> THEN EmptyResult
  ELSE ParseIntent(s, classify_intent(s, menu, classifier), menu, word2number)

\* the dictionary parse_order returns, or RaisedResult
parse_order(utterance, menu, word2number, classifier) ==
  ParseStripped(strip(utterance), menu, word2number, classifier)

----------------------------------------------------------------------------
(* The calls: the utterances and menus parse_order is called with, and the  *)
(* texts normalize_text is applied to                                       *)

\* how many clauses an order utterance is put together from, at most
MaxClauses == 2

\* how many times normalize_text is applied to its own output, at most
MaxPasses == 2

\* how many calls of parse_order a process makes, at most
MaxCalls == 2

\* four names of sample_menu (tests/test_nlp.py)
SampleMenu == <<<<"C","h","i","c","k","e","n"," ","P","i","z","z","a">>, <<"M","a","r","g","h","e","r","i","t","a"," ","P","i","z","z","a">>, <<"C","o","k","e">>, <<"H","o","t"," ","T","e","a">>>>

Menus == {SampleMenu, <<>>}

\* what an order utterance begins with
Leads == {<<>>, <<"I"," ","w","a","n","t"," ">>}

\* what joins two clauses
Separators == {<<" ","a","n","d"," ">>, <<","," ">>, <<";">>}

\* the clauses order utterances are put together from
Phrases ==
  << <<"2"," ","c","h","i","c","k","e","n"," ","p","i","z","z","a","s">>, <<"1"," ","c","o","k","e">>, <<"1"," ","u","n","k","n","o","w","n","_","i","t","e","m">>, <<"p","i","z","a">> >>

\* the sequences of one to MaxClauses phrases
OrderClauses ==
  UNION {{[k \in 1..n |-> Phrases[f[k]]] \o <<>> : f \in [1..n -> 1..Len(Phrases)]} :
           n \in 1..MaxClauses}

\* an order whose quantity is a run of digits one longer than int() converts
LongNumber == [i \in 1..(INT_MAX_STR_DIGITS + 1) |-> "9"] \o <<>>
LongOrder == LongNumber \o <<" ","c","o","k","e">>

\* utterances of one piece: the edge cases of test_nlp.py (empty, blank,
\* digits only, punctuation only, an emoji, written as the one character
\* "U+1F600"), one utterance for each intent, and orders in each notation of
\* a quantity
Utterances ==
  { <<>>, <<" "," "," ">>, <<"1","2">>, <<"?","!">>, <<"U+1F600">>, <<"z","z","z","z">>,
    <<"C","a","n","c","e","l"," ","m","y"," ","o","r","d","e","r">>, <<"c","a","n","c","e","l"," ","o","r","d","e","r">>, <<"c","a","n","c","e","l"," ","o","r","d","e","r"," ","h","i","s","t","o","r","y">>, <<"r","e","m","o","v","e"," ","t","h","e"," ","o","r","d","e","r">>,
    <<"S","h","o","w"," ","m","e"," ","t","h","e"," ","m","e","n","u">>, <<"H","e","l","l","o"," ","t","h","e","r","e">>, <<"I"," ","n","e","e","d"," ","h","e","l","p">>, <<"m","y"," ","o","r","d","e","r","s">>,
    <<"2"," ","c","o","k","e"," ","a","n","d"," ","1"," ","c","o","k","e"," ","a","n","d"," ","3"," ","c","o","k","e">>, <<"2"," ","c","h","i","c","k","e","n"," ","p","i","z","z","a"," ","a","n","d"," ","1"," ","u","n","k","n","o","w","n","_","i","t","e","m">>,
    <<"2"," ","c","o","k","e"," ","a","n","d"," ","1"," ","b","u","r","g","e","r">>, <<"i"," ","w","a","n","t"," ","p","i","z","z","a"," ","a","n","d"," ","b","u","r","g","e","r">>, <<"a"," ","b","u","r","g","e","r">>,
    <<"h","a","l","f"," ","c","o","k","e">>, <<"0"," ","c","o","k","e">>, <<"z","e","r","o"," ","c","o","k","e">>, <<"t","w","o"," ","c","o","k","e">>, <<"2","x"," ","c","o","k","e">>, <<"c","o","k","e">>, <<"t","e","a">>,
    <<"1"," ","m","a","r","g","h","e","r","i","t","a">>, <<"c","h","e","e","s","e"," ","p","i","z","a">>,
    <<"p","i","z","z","a"," ","a","n","d"," ","t","e","a">>, <<"p","i","z","z","a","s">>, <<"s","h","o","w"," ","m","e"," ","t","h","e"," ","p","i","z","z","a"," ","m","e","n","u">>, <<"h","e","l","l","o"," ","c","o","k","e">>,
    <<"1"," ","h","o","t"," ","t","e","a"," ","2"," ","c","o","k","e">>, <<"c","o","k","e"," ","h","o","t"," ","t","e","a">>, <<"c","o","k","e"," ","h","o","t"," ","t","e","a","2">>, <<",">> }

\* " and ".join(clauses), for any separator
RECURSIVE JoinWith(_, _)
JoinWith(cs, separator) ==
  IF cs = <<>> THEN <<>>
  ELSE IF Len(cs) = 1 THEN cs[1]
  ELSE cs[1] \o separator \o JoinWith(Tail(cs), separator)

\* the utterance handed to parse_order
text == lead \o JoinWith(clauses, sep)

\* the texts normalize_text is applied to: the utterances, and every key and
\* every value of the two tables
NormalizeInputs ==
  Utterances
    \cup {JoinWith(cs, <<" ","a","n","d"," ">>) : cs \in OrderClauses}
    \cup {common_mistakes[k][j] : k \in 1..Len(common_mistakes), j \in 1..2}
    \cup {food_aliases[k][j] : k \in 1..Len(food_aliases), j \in 1..2}

\* the utterances of a process that calls parse_order more than once
SessionUtterances == { <<" "," "," ">>, <<"2"," ","c","o","k","e">>, <<"z","z","z","z">> }

\* the texts the methods of RestaurantNLP are called on: the utterances, the
\* phrases, and fragments that take each path through the scorers and each
\* pattern of a quantity
Queries ==
  Utterances
    \cup {Phrases[k] : k \in 1..Len(Phrases)}
    \cup { <<"c","h","i","c","k","e","n">>, <<"c","o","k">>, <<"c","h","i","k","e","n"," ","p","i","z","a">>, <<"p","i","z","z","a"," ","c","h","i","c","k","e","n">>, <<"t","e","a"," ","h","o","t">>,
           <<"2","x"," ","c","o","k","e"," ","3">>, <<"c","o","k","e"," ","3"," ","2","x">>, <<"t","w","o"," ","c","o","k","e"," ","3">>, <<"a"," ","c","o","u","p","l","e"," ","o","f"," ","c","o","k","e">>,
           <<"o","n","e"," ","d","o","z","e","n"," ","c","o","k","e">>, <<"t","w","e","n","t","y"," ","o","n","e"," ","c","o","k","e">>, <<"v","e","g","g","i","e"," ","p","i","z","a">>, <<"p","i","z","a"," ","v","e","g","g","i","e">>,
           <<"p","i","z","z","a"," ","b","u","r","g","e","r">>, <<"c","h","e","e","s","e"," ","b","u","r","g","e","r"," ","p","i","z","z","a">>, <<"w","h","a","t"," ","i","s"," ","m","y"," ","o","r","d","e","r"," ","t","o"," ","c","a","n","c","e","l">>,
           <<"h","i"," ","s","h","o","w"," ","m","e","n","u">>, <<"h","e","l","p"," ","m","e"," ","o","r","d","e","r">>, <<"g","e","t"," ","m","e"," ","a"," ","m","e","n","u">> }
    \cup {SampleMenu[i] : i \in 1..Len(SampleMenu)}

NoResult == [intent |-> "none"]

\* no method was called yet
NoAnswer == [method |-> "none"]

\* no cancel flow is running
NoCancel == [step |-> "idle"]

InitOrder ==
  /\ lead \in Leads
  /\ clauses \in OrderClauses
  /\ sep \in Separators
  /\ menu_names = SampleMenu
  /\ w2n \in BOOLEAN
  /\ transformers = TRUE
  /\ pc = "ready"
  /\ result = NoResult
  /\ pending = <<>>
  /\ history = <<>>
  /\ norm = <<>>
  /\ passes = 0
  /\ argument = <<>>
  /\ answer = NoAnswer
  /\ orders = <<>>
  /\ cancel = NoCancel

InitUtterance ==
  /\ lead = <<>>
  /\ clauses \in {<<u>> : u \in Utterances}
  /\ sep = <<" ","a","n","d"," ">>
  /\ menu_names \in Menus
  /\ w2n \in BOOLEAN
  /\ transformers = TRUE
  /\ pc = "ready"
  /\ result = NoResult
  /\ pending = <<>>
  /\ history = <<>>
  /\ norm = <<>>
  /\ passes = 0
  /\ argument = <<>>
  /\ answer = NoAnswer
  /\ orders = <<>>
  /\ cancel = NoCancel

InitLongOrder ==
  /\ lead = <<>>
  /\ clauses = <<LongOrder>>
  /\ sep = <<" ","a","n","d"," ">>
  /\ menu_names = SampleMenu
  /\ w2n = FALSE
  /\ transformers = TRUE
  /\ pc = "ready"
  /\ result = NoResult
  /\ pending = <<>>
  /\ history = <<>>
  /\ norm = <<>>
  /\ passes = 0
  /\ argument = <<>>
  /\ answer = NoAnswer
  /\ orders = <<>>
  /\ cancel = NoCancel

\* a process that calls parse_order up to MaxCalls times
InitSession ==
  /\ lead = <<>>
  /\ clauses \in {<<u>> : u \in SessionUtterances}
  /\ sep = <<" ","a","n","d"," ">>
  /\ menu_names = SampleMenu
  /\ w2n = FALSE
  /\ transformers \in BOOLEAN
  /\ pc = "ready"
  /\ result = NoResult
  /\ pending \in UNION {{f \o <<>> : f \in [1..k -> SessionUtterances]} :
                       k \in 0..(MaxCalls - 1)}
  /\ history = <<>>
  /\ norm = <<>>
  /\ passes = 0
  /\ argument = <<>>
  /\ answer = NoAnswer
  /\ orders = <<>>
  /\ cancel = NoCancel

InitNormalize ==
  /\ lead = <<>>
  /\ clauses = <<>>
  /\ sep = <<" ","a","n","d"," ">>
  /\ menu_names = <<>>
  /\ w2n = FALSE
  /\ transformers = TRUE
  /\ pc = "normalize"
  /\ result = NoResult
  /\ pending = <<>>
  /\ history = <<>>
  /\ norm \in NormalizeInputs
  /\ passes = 0
  /\ argument = <<>>
  /\ answer = NoAnswer
  /\ orders = <<>>
  /\ cancel = NoCancel

\* one method of a RestaurantNLP instance is called on a argument
InitMethod ==
  /\ lead = <<>>
  /\ clauses = <<>>
  /\ sep = <<" ","a","n","d"," ">>
  /\ pc \in {"classify_intent", "fuzzy_match_menu_item",
            "extract_quantity_from_text", "check_generic_items"}
  /\ menu_names \in (IF pc = "fuzzy_match_menu_item"
                     THEN Menus \cup {<<<<"G","r","e","e","n"," ","T","e","a">>, <<"H","o","t"," ","T","e","a">>>>} ELSE Menus)
  /\ w2n \in (IF pc = "extract_quantity_from_text" THEN BOOLEAN ELSE {FALSE})
  /\ transformers = TRUE
  /\ result = NoResult
  /\ pending = <<>>
  /\ history = <<>>
  /\ norm = <<>>
  /\ passes = 0
  /\ argument \in (IF pc = "extract_quantity_from_text"
                  THEN Queries \cup {LongOrder}
                  ELSE IF menu_names \in Menus THEN Queries
                  ELSE {menu_names[i] : i \in 1..Len(menu_names)})
  /\ answer = NoAnswer
  /\ orders = <<>>
  /\ cancel = NoCancel

\* calculate_confidence(text, intent, items, quantities) is called with any
\* arguments: texts with and without an ordering phrase and a number, every
\* intent, and lists of equal and of different lengths
InitConfidence ==
  /\ lead = <<>>
  /\ clauses = <<>>
  /\ sep = <<" ","a","n","d"," ">>
  /\ menu_names = SampleMenu
  /\ w2n = FALSE
  /\ transformers = TRUE
  /\ pc = "calculate_confidence"
  /\ result = NoResult
  /\ pending = <<>>
  /\ history = <<>>
  /\ norm = <<>>
  /\ passes = 0
  /\ argument \in [text : {<<"c","o","k","e">>, <<"2"," ","c","o","k","e">>, <<"i"," ","w","a","n","t"," ","c","o","k","e">>, <<"I"," ","W","A","N","T"," ","2"," ","c","o","k","e">>,
                            <<"v","e","g","e","t","a","b","l","e"," ","2","x">>, <<"g","i","v","e"," ","m","e"," ","t","e","a">>},
                    intent : candidate_intents \cup {"unknown"},
                    items : {<<>>, <<<<"C","o","k","e">>>>, <<<<"C","o","k","e">>, <<"H","o","t"," ","T","e","a">>>>},
                    quantities : {<<>>, <<1>>, <<1, 2>>}]
  /\ answer = NoAnswer
  /\ orders = <<>>
  /\ cancel = NoCancel

\* how many documents the collection 'orders' holds, at most
MaxOrders == 2

\* valid_statuses of update_order_status
valid_statuses ==
  {"Pending", "Confirmed", "Preparing", "Ready", "Delivered", "Cancelled"}

\* POST /order with an utterance of the intent cancel_order, which names an
\* order (explicit, order_id) or none, while the collection holds any orders
\* in any status; the documents are numbered in the order of created_at
InitCancel ==
  /\ lead = <<>>
  /\ clauses = <<>>
  /\ sep = <<" ","a","n","d"," ">>
  /\ menu_names = SampleMenu
  /\ w2n = FALSE
  /\ transformers = TRUE
  /\ pc = "cancel_order"
  /\ result = NoResult
  /\ pending = <<>>
  /\ history = <<>>
  /\ norm = <<>>
  /\ passes = 0
  /\ argument = <<>>
  /\ answer = NoAnswer
  /\ orders \in [1..MaxOrders -> valid_statuses \cup {"absent"}]
  /\ cancel \in {[step |-> "start", explicit |-> e, order_id |-> o,
                   current_status |-> "none", response |-> 0] :
                    e \in BOOLEAN, o \in 0..MaxOrders}
  /\ cancel.explicit = (cancel.order_id # 0)

Init ==
  InitOrder \/ InitUtterance \/ InitLongOrder \/ InitSession \/ InitNormalize
    \/ InitMethod \/ InitConfidence \/ InitCancel

\* What the classifier does in a call of classify_intent on s.  It is asked
\* only when no rule decides ("unasked" otherwise), and what it answers is
\* not the program's choice; it is None where transformers is not installed.
Asked(s, menu, available) ==
  IF RuleIntent(s, menu) # "none" THEN {"unasked"}
  ELSE IF available THEN ClassifierOutcomes
  ELSE {"absent"}

\* Whether `nlp = RestaurantNLP()' loaded the classifier in a call of
\* parse_order: the instance is not built for a blank utterance, pipeline()
\* is called only where transformers is installed, and it may raise, which
\* leaves intent_classifier None
Loaded(s, available, classifier) ==
  IF strip(s) = <<>> \/ ~available \/ classifier = "absent" THEN {FALSE}
  ELSE IF classifier = "unasked" THEN BOOLEAN
  ELSE {TRUE}

\* one call parse_order(text, menu_names)
ParseOrder ==
  /\ pc = "ready"
  /\ \E classifier \in Asked(strip(text), menu_names, transformers) :
       \E returned \in {parse_order(text, menu_names, w2n, classifier)} :
         \E loaded \in Loaded(text, transformers, classifier) :
           /\ result' = returned
           /\ pc' = IF "raised" \in DOMAIN returned THEN "raised" ELSE "parsed"
           /\ history' = Append(history,
                                [text |-> text, menu_names |-> menu_names,
                                 classifier |-> classifier, loaded |-> loaded,
                                 returned |-> returned])
  /\ UNCHANGED <<lead, clauses, sep, menu_names, w2n, transformers, pending,
                 norm, passes, argument, answer>>
  /\ UNCHANGED <<orders, cancel>>

\* the process goes on to its next call of parse_order
NextCall ==
  /\ pc \in {"parsed", "raised"}
  /\ pending # <<>>
  /\ clauses' = <<Head(pending)>>
  /\ pending' = Tail(pending)
  /\ pc' = "ready"
  /\ UNCHANGED <<lead, sep, menu_names, w2n, transformers, result, history,
                 norm, passes, argument, answer>>
  /\ UNCHANGED <<orders, cancel>>

\* norm = self.normalize_text(norm)
NormalizeText ==
  /\ pc = "normalize"
  /\ passes < MaxPasses
  /\ norm' = normalize_text(norm)
  /\ passes' = passes + 1
  /\ UNCHANGED <<lead, clauses, sep, menu_names, w2n, transformers, pc, result,
                 pending, history, argument, answer>>
  /\ UNCHANGED <<orders, cancel>>

\* answer = self.classify_intent(argument, menu_names)
ClassifyIntent ==
  /\ pc = "classify_intent"
  /\ \E call \in {c \in ClassifierCalls :
                     Outcome(c) \in Asked(argument, menu_names, transformers)} :
       answer' = [method |-> pc,
                  value |-> classify_intent(argument, menu_names, Outcome(call)),
                  call |-> call]
  /\ pc' = "returned"
  /\ UNCHANGED <<lead, clauses, sep, menu_names, w2n, transformers, result,
                 pending, history, norm, passes, argument>>
  /\ UNCHANGED <<orders, cancel>>

\* answer = self.fuzzy_match_menu_item(argument, menu_names)
FuzzyMatch ==
  /\ pc = "fuzzy_match_menu_item"
  /\ answer' = [method |-> pc, value |-> fuzzy_match_menu_item(argument, menu_names)]
  /\ pc' = "returned"
  /\ UNCHANGED <<lead, clauses, sep, menu_names, w2n, transformers, result,
                 pending, history, norm, passes, argument>>
  /\ UNCHANGED <<orders, cancel>>

\* answer = self.extract_quantity_from_text(argument), or the exception it raises
ExtractQuantity ==
  /\ pc = "extract_quantity_from_text"
  /\ answer' = [method |-> pc,
                value |-> IF extract_quantity_from_text_raises(argument)
                          THEN Raised("ValueError")
                          ELSE extract_quantity_from_text(argument, w2n)]
  /\ pc' = "returned"
  /\ UNCHANGED <<lead, clauses, sep, menu_names, w2n, transformers, result,
                 pending, history, norm, passes, argument>>
  /\ UNCHANGED <<orders, cancel>>

\* answer = self.check_generic_items(argument, menu_names)
CheckGeneric ==
  /\ pc = "check_generic_items"
  /\ answer' = [method |-> pc, value |-> check_generic_items(argument, menu_names)]
  /\ pc' = "returned"
  /\ UNCHANGED <<lead, clauses, sep, menu_names, w2n, transformers, result,
                 pending, history, norm, passes, argument>>
  /\ UNCHANGED <<orders, cancel>>

\* answer = calculate_confidence(text, intent, items, quantities)
CalculateConfidence ==
  /\ pc = "calculate_confidence"
  /\ answer' = [method |-> pc,
                value |-> calculate_confidence(argument.text, argument.intent,
                                               argument.items, argument.quantities)]
  /\ pc' = "returned"
  /\ UNCHANGED <<lead, clauses, sep, menu_names, w2n, transformers, result,
                 pending, history, norm, passes, argument>>
  /\ UNCHANGED <<orders, cancel>>

\* the flow answers the request with this HTTP status
Responded(code) == [cancel EXCEPT !.step = "responded", !.response = code]

\* `doc = db.collection('orders').document(order_id).get()' and the tests of
\* doc.exists and of current_status that follow it; a failure of the
\* database is answered with 500
CancelGet ==
  /\ pc = "cancel_order"
  /\ cancel.step = "start"
  /\ cancel.explicit
  /\ \E ok \in BOOLEAN :
       cancel' = IF ~ok THEN Responded(500)
                 ELSE IF orders[cancel.order_id] = "absent" THEN Responded(404)
                 ELSE IF orders[cancel.order_id] \in {"Delivered", "Cancelled"}
                 THEN [Responded(400) EXCEPT !.current_status = orders[cancel.order_id]]
                 ELSE [cancel EXCEPT !.step = "checked",
                                     !.current_status = orders[cancel.order_id]]
  /\ UNCHANGED <<lead, clauses, sep, menu_names, w2n, transformers, pc, result,
                 pending, history, norm, passes, argument, answer, orders>>

\* the query for the most recent order whose status is Pending or Confirmed,
\* and `if not orders'
CancelQuery ==
  /\ pc = "cancel_order"
  /\ cancel.step = "start"
  /\ ~cancel.explicit
  /\ \E ok \in BOOLEAN :
       \E active \in {{o \in 1..MaxOrders : orders[o] \in {"Pending", "Confirmed"}}} :
         cancel' = IF ~ok THEN Responded(500)
                   ELSE IF active = {} THEN Responded(404)
                   ELSE [cancel EXCEPT !.step = "checked",
                                       !.order_id = SetMax(active),
                                       !.current_status = orders[SetMax(active)]]
  /\ UNCHANGED <<lead, clauses, sep, menu_names, w2n, transformers, pc, result,
                 pending, history, norm, passes, argument, answer, orders>>

\* `db.collection('orders').document(order_id).update({'status':
\* 'Cancelled', ...})' of either branch, and the response
CancelUpdate ==
  /\ pc = "cancel_order"
  /\ cancel.step = "checked"
  /\ \E ok \in BOOLEAN :
       IF ok
       THEN /\ orders' = [orders EXCEPT ![cancel.order_id] = "Cancelled"]
            /\ cancel' = Responded(200)
       ELSE /\ orders' = orders
            /\ cancel' = Responded(500)
  /\ UNCHANGED <<lead, clauses, sep, menu_names, w2n, transformers, pc, result,
                 pending, history, norm, passes, argument, answer>>

\* PUT /orders/<order_id>/status with a valid status, by any client at any
\* time; update() of a document that is not there fails and changes nothing
UpdateOrderStatus ==
  /\ pc = "cancel_order"
  /\ \E order_id \in 1..MaxOrders : \E new_status \in valid_statuses :
       /\ orders[order_id] # "absent"
       /\ orders' = [orders EXCEPT ![order_id] = new_status]
  /\ UNCHANGED <<lead, clauses, sep, menu_names, w2n, transformers, pc, result,
                 pending, history, norm, passes, argument, answer, cancel>>

Next ==
  ParseOrder \/ NextCall \/ NormalizeText \/ ClassifyIntent \/ FuzzyMatch
    \/ ExtractQuantity \/ CheckGeneric \/ CalculateConfidence
    \/ CancelGet \/ CancelQuery \/ CancelUpdate \/ UpdateOrderStatus

Spec == Init /\ [][Next]_vars

----------------------------------------------------------------------------
(* What the properties below speak of *)

Parsed == pc = "parsed"

ResultFields ==
  {"intent", "items", "quantities", "confidence", "needs_clarification",
   "clarification_type", "available_options", "unclear_items"}

Intents ==
  {"greeting", "help", "show_menu", "cancel_order", "view_orders", "order_food", "unknown"}

\* the generic-category clarification was returned
GenericAsked ==
  /\ result.needs_clarification
  /\ \E k \in 1..Len(generic_names) : result.clarification_type = Some(generic_names[k])

\* the clause "<digit> <menu name>", or "<digit> <menu name>s"
OrderClause(d, i, plural) ==
  <<d>> \o <<" ">> \o lower(menu_names[i]) \o (IF plural THEN <<"s">> ELSE <<>>)

\* the <<digit, menu index>> a clause of that form is written from
Readings(c) ==
  {r \in Digits \X (1..Len(menu_names)) :
     \E plural \in BOOLEAN : c = OrderClause(r[1], r[2], plural)}

Reading(c) == CHOOSE r \in Readings(c) : TRUE

\* every clause holds one integer and one menu name, no name twice
IsOrder ==
  /\ clauses # <<>>
  /\ \A k \in 1..Len(clauses) : Readings(clauses[k]) # {}
  /\ \A k, l \in 1..Len(clauses) :
       k # l => Reading(clauses[k])[2] # Reading(clauses[l])[2]

\* the clauses parse_order finds in the utterance: the parts of the
\* normalized text, stripped, the empty ones left out
NonEmpty(part) == part # <<>>
Parts ==
  LET split_parts == SplitParts(normalize_text(strip(text)), 1)
  IN  SelectSeq(Tuple([k \in 1..Len(split_parts) |-> strip(split_parts[k])]), NonEmpty)

\* the quantity of a part: what it writes, 1 when it writes none
PartQuantity(part) ==
  LET q == extract_quantity_from_text(part, w2n)
  IN  IF q = None THEN 1 ELSE q[1]

\* the quantities of the first k parts that resolve to item, summed;
\* resolved[k] is what part k resolves to and quantity[k] its quantity
RECURSIVE Total(_, _, _, _)
Total(resolved, quantity, item, k) ==
  IF k = 0 THEN 0
  ELSE Total(resolved, quantity, item, k - 1)
         + (IF resolved[k] # None /\ resolved[k][1] = item THEN quantity[k] ELSE 0)

\* the parts among the first k that resolve to nothing, in order
RECURSIVE Unresolved(_, _, _)
Unresolved(parts, resolved, k) ==
  IF k = 0 THEN <<>>
  ELSE Unresolved(parts, resolved, k - 1)
         \o (IF resolved[k] = None THEN <<parts[k]>> ELSE <<>>)

\* the category word g stands in the normalized utterance, with no qualifier
\* next to it in the utterance as written and no menu name of several words
\* in the normalized utterance
BareCategory(g) ==
  LET written == lower(strip(text))
      normalized == normalize_text(strip(text))
      qualifiers == specific_indicators(g)
  IN  /\ SearchWords(normalized, {g})
      /\ \A k \in 1..Len(qualifiers) :
           /\ ~SearchAdjacent(written, qualifiers[k], g)
           /\ ~SearchAdjacent(written, g, qualifiers[k])
      /\ \A i \in 1..Len(menu_names) :
           Len(split(lower(menu_names[i]))) > 1
             => ~Contains(normalized, lower(menu_names[i]))

BareCategories == {k \in 1..Len(generic_names) : BareCategory(generic_names[k])}

----------------------------------------------------------------------------
(* C1 *)

----------------------------------------------------------------------------
(* C2 *)

----------------------------------------------------------------------------
(* C3 *)

\* C3, as the specification states it: an utterance in which a cancel verb is
\* followed by the word `order', and which does not contain `order history',
\* is a cancel_order with no items and no quantities.
C3_CancelOrder ==
  (/\ Parsed
   /\ SearchWordsThenWords(lower(text), {<<"c","a","n","c","e","l">>, <<"r","e","m","o","v","e">>, <<"d","e","l","e","t","e">>, <<"s","t","o","p">>}, {<<"o","r","d","e","r">>})
   /\ ~Contains(lower(text), <<"o","r","d","e","r"," ","h","i","s","t","o","r","y">>))
    => /\ result.intent = "cancel_order"
       /\ result.items = <<>>
       /\ result.quantities = <<>>

----------------------------------------------------------------------------
(* C4 *)

\* what C4 asks of a result: every part that resolves has its item in the
\* result with the summed quantity of the parts that resolve to it, the
\* parts that resolve to nothing are the unclear_items, and no clarification
\* is asked for
PartialSuccessKept ==
  LET parts == Parts
      resolved == Tuple([k \in 1..Len(parts) |-> MatchPart(parts[k], menu_names)])
      quantity == Tuple([k \in 1..Len(parts) |-> PartQuantity(parts[k])])
  IN  ((\E k \in 1..Len(parts) : resolved[k] # None)
        /\ (\E k \in 1..Len(parts) : resolved[k] = None))
      => /\ \A k \in 1..Len(parts) :
              resolved[k] # None =>
                \E j \in 1..Len(result.items) :
                  /\ result.items[j] = resolved[k][1]
                  /\ result.quantities[j] = Total(resolved, quantity, resolved[k][1], Len(parts))
         /\ result.unclear_items = Unresolved(parts, resolved, Len(parts))
         /\ result.needs_clarification = FALSE

\* C4, as the specification states it: in every order_food utterance with a
\* clause that resolves to a menu item and another that resolves to nothing,
\* the resolved items are kept with their quantities, the unresolved clauses
\* are the unclear_items and needs_clarification is false.
C4_PartialSuccess ==
  (Parsed /\ result.intent = "order_food") => PartialSuccessKept

\* C4, as the code has it: the same, for the utterances in which no generic
\* category is to be clarified.
C4_PartialSuccessUnlessGeneric ==
  (/\ Parsed
   /\ result.intent = "order_food"
   /\ check_generic_items(strip(text), menu_names) = None)
    => PartialSuccessKept

\* `2 chicken pizza and 1 unknown_item' was parsed: one item kept, one part
\* unclear
C4_OneKeptOneUnclear ==
  /\ Parsed
  /\ text = <<"2"," ","c","h","i","c","k","e","n"," ","p","i","z","z","a"," ","a","n","d"," ","1"," ","u","n","k","n","o","w","n","_","i","t","e","m">>
  /\ result.items = <<<<"C","h","i","c","k","e","n"," ","P","i","z","z","a">>>>
  /\ result.quantities = <<2>>
  /\ result.unclear_items = <<<<"1"," ","u","n","k","n","o","w","n","_","i","t","e","m">>>>
  /\ result.needs_clarification = FALSE

----------------------------------------------------------------------------
(* C5 *)

\* C5, as the specification states it: every call of parse_order returns,
\* and returns a record of exactly the eight fields whose intent is one of
\* the seven intents.
C5_AlwaysAResult ==
  pc \in {"parsed", "raised"} =>
    /\ pc = "parsed"
    /\ DOMAIN result = ResultFields
    /\ result.intent \in Intents

----------------------------------------------------------------------------
(* C6 *)

\* C6: where several parts of an utterance resolve to the same menu item,
\* what the extractor returns has one entry for that item, and its quantity
\* is the sum of the quantities of those parts.
C6_DuplicatesSummed ==
  (/\ Parsed
   /\ result.intent = "order_food"
   /\ check_generic_items(strip(text), menu_names) = None)
    => LET parts == Parts
           resolved == Tuple([k \in 1..Len(parts) |-> MatchPart(parts[k], menu_names)])
           quantity == Tuple([k \in 1..Len(parts) |-> PartQuantity(parts[k])])
       IN  \A k, l \in 1..Len(parts) :
             (k # l /\ resolved[k] # None /\ resolved[l] # None
                /\ resolved[k][1] = resolved[l][1])
             => /\ Cardinality({j \in 1..Len(result.items) :
                                  result.items[j] = resolved[k][1]}) = 1
                /\ \A j \in 1..Len(result.items) :
                     result.items[j] = resolved[k][1] =>
                       result.quantities[j] =
                         Total(resolved, quantity, resolved[k][1], Len(parts))

\* `2 coke and 1 coke and 3 coke' was parsed: one entry, quantity 6
C6_ThreeCokesSummed ==
  /\ Parsed
  /\ text = <<"2"," ","c","o","k","e"," ","a","n","d"," ","1"," ","c","o","k","e"," ","a","n","d"," ","3"," ","c","o","k","e">>
  /\ menu_names = SampleMenu
  /\ result.items = <<<<"C","o","k","e">>>>
  /\ result.quantities = <<6>>

----------------------------------------------------------------------------
(* C7 *)

\* what C7 asks of a result, for the category generic_names[k]
AsksCategory(k) ==
  /\ result.needs_clarification = TRUE
  /\ result.clarification_type = Some(generic_names[k])
  /\ result.available_options = generic_items(generic_names[k])
  /\ result.items = <<>>

----------------------------------------------------------------------------
(* C8 *)

\* C8, as the specification states it: what normalize_text returns is a
\* fixed point of normalize_text.
C8_NormalizeIdempotent ==
  (pc = "normalize" /\ passes >= 1) => normalize_text(norm) = norm

----------------------------------------------------------------------------
(* C9 *)

\* C9, as the specification states it: every quantity parse_order returns is
\* strictly positive.
C9_QuantitiesPositive ==
  Parsed => \A k \in 1..Len(result.quantities) : result.quantities[k] > 0

----------------------------------------------------------------------------
(* C10 *)

\* C10: the confidence parse_order returns lies in [0.0, 1.0] and is a whole
\* number of hundredths (the model counts it in thousandths).
C10_ConfidenceInRange ==
  Parsed =>
    /\ result.confidence >= 0
    /\ result.confidence <= 1000
    /\ result.confidence % 10 = 0

\* an order whose confidence terms add up to 1.3 was parsed, with the
\* confidence 1.0
C10_SumAboveOne ==
  /\ Parsed
  /\ text = <<"I"," ","w","a","n","t"," ","2"," ","c","h","i","c","k","e","n"," ","p","i","z","z","a","s"," ","a","n","d"," ","1"," ","c","o","k","e">>
  /\ result.items # <<>>
  /\ result.confidence = 1000

----------------------------------------------------------------------------
(* C11 *)

\* the method m was called on argument and returned
Returned(m) == pc = "returned" /\ answer.method = m

\* the intents of the rule groups of classify_intent, in the order the claim
\* gives them
GroupIntent ==
  << "view_orders", "cancel_order", "show_menu", "greeting", "help",
     "order_food", "order_food" >>

\* the rule groups, by their place in that order, that match the argument:
\* a pattern of the group is found in the text, and for the sixth group a
\* menu item is detected in it
GroupsMatching ==
  LET text_lower == strip(lower(argument))
  IN  {k \in 1..7 :
         CASE k = 1 -> view_orders_patterns(text_lower)
           [] k = 2 -> cancel_order_patterns(text_lower)
           [] k = 3 -> show_menu_patterns(text_lower)
           [] k = 4 -> greeting_patterns(text_lower)
           [] k = 5 -> help_patterns(text_lower)
           [] k = 6 -> contains_food_items(argument, menu_names)
           [] k = 7 -> order_food_patterns(text_lower)}

----------------------------------------------------------------------------
(* C12 *)

\* C12: a result of parse_order whose intent is not order_food has no items,
\* no quantities, no unclear items and no options, and asks for no
\* clarification.
C12_NothingExtractedUnlessOrder ==
  (Parsed /\ result.intent # "order_food") =>
    /\ result.items = <<>>
    /\ result.quantities = <<>>
    /\ result.unclear_items = <<>>
    /\ result.available_options = <<>>
    /\ ~result.needs_clarification
    /\ result.clarification_type = None

\* `show me the pizza menu' names a generic category, which the
\* generic-category check would ask about, and `hello coke' a menu item; the
\* first was parsed as show_menu with nothing extracted
C12_MenuAskedWithCategory ==
  /\ Parsed
  /\ text = <<"s","h","o","w"," ","m","e"," ","t","h","e"," ","p","i","z","z","a"," ","m","e","n","u">>
  /\ menu_names = SampleMenu
  /\ check_generic_items(text, menu_names) = Some(<<"p","i","z","z","a">>)
  /\ result.intent = "show_menu"
  /\ result.items = <<>>
  /\ ~result.needs_clarification

----------------------------------------------------------------------------
(* C13 *)

\* the extractor ran: the utterance was parsed as an order with no generic
\* category to ask about
Extracting ==
  /\ Parsed
  /\ result.intent = "order_food"
  /\ check_generic_items(strip(text), menu_names) = None

\* the menu items the parts resolve to, each once, in the order of the first
\* part that resolves to it; resolved[k] is what part k resolves to
FirstResolved(resolved) ==
  LET firsts == {k \in 1..Len(resolved) :
                   /\ resolved[k] # None
                   /\ \A j \in 1..(k - 1) :
                        resolved[j] = None \/ resolved[j][1] # resolved[k][1]}
  IN  Tuple([i \in 1..Cardinality(firsts) |-> resolved[Nth(firsts, i)][1]])

\* the menu names that stand in the normalized utterance and are not among
\* items, in menu order
Swept(items) ==
  LET normalized == normalize_text(strip(text))
      found == {i \in 1..Len(menu_names) :
                  /\ Contains(normalized, lower(menu_names[i]))
                  /\ \A j \in 1..Len(items) : items[j] # menu_names[i]}
  IN  Tuple([i \in 1..Cardinality(found) |-> menu_names[Nth(found, i)]])

\* C13: in every result of parse_order no menu name is listed twice; where
\* the extractor ran, the items are those the parts resolve to, in the order
\* of the part that resolves to each first, followed by those only the final
\* sweep over the menu finds, in menu order, and quantities[i] is the total
\* of items[i]: the sum over its parts, or what the sweep reads next to it.
C13_ItemsOnceInFirstResolvedOrder ==
  /\ Parsed =>
       \A i, j \in 1..Len(result.items) : i # j => result.items[i] # result.items[j]
  /\ Extracting =>
       LET parts == Parts
           resolved == Tuple([k \in 1..Len(parts) |-> MatchPart(parts[k], menu_names)])
           quantity == Tuple([k \in 1..Len(parts) |-> PartQuantity(parts[k])])
           first == FirstResolved(resolved)
       IN  /\ result.items = first \o Swept(first)
           /\ Len(result.quantities) = Len(result.items)
           /\ \A i \in 1..Len(result.items) :
                result.quantities[i] =
                  IF i <= Len(first)
                  THEN Total(resolved, quantity, result.items[i], Len(parts))
                  ELSE NearbyQty(normalize_text(strip(text)), lower(result.items[i]))

\* `1 hot tea 2 coke' is one part, which resolves to Coke; Hot Tea is found
\* by the sweep and listed after it
C13_SweptItemListedLast ==
  /\ Extracting
  /\ text = <<"1"," ","h","o","t"," ","t","e","a"," ","2"," ","c","o","k","e">>
  /\ menu_names = SampleMenu
  /\ Len(Parts) = 1
  /\ MatchPart(Parts[1], menu_names)[1] = <<"C","o","k","e">>
  /\ result.items = <<<<"C","o","k","e">>, <<"H","o","t"," ","T","e","a">>>>
  /\ result.quantities = <<1, 2>>

----------------------------------------------------------------------------
(* C14 *)

\* the calls of parse_order so far whose utterance is empty or blank
BlankCalls == {k \in 1..Len(history) : strip(history[k].text) = <<>>}

\* C14: a call of parse_order with an empty or blank utterance returns
\* intent unknown, confidence 0.0, no items, no quantities and no
\* clarification; the classifier is not asked in it, and no RestaurantNLP
\* instance, whose methods the rules and the extractors are, is built and
\* loaded for it.
C14_BlankShortCircuits ==
  \A k \in BlankCalls :
    /\ "raised" \notin DOMAIN history[k].returned
    /\ history[k].returned.intent = "unknown"
    /\ history[k].returned.confidence = 0
    /\ history[k].returned.items = <<>>
    /\ history[k].returned.quantities = <<>>
    /\ ~history[k].returned.needs_clarification
    /\ history[k].returned.clarification_type = None
    /\ history[k].classifier = "unasked"
    /\ ~history[k].loaded

\* in a build with transformers, a call that loaded the classifier was
\* followed by a call with a blank utterance
C14_BlankAfterLoadedCall ==
  /\ Parsed
  /\ transformers
  /\ Len(history) = 2
  /\ history[1].loaded
  /\ BlankCalls = {2}
  /\ result.intent = "unknown"

----------------------------------------------------------------------------
(* C15 *)

\* C15, as the specification states it: over all the calls of parse_order of
\* a process the classifier is loaded at most once.
C15_LoadedAtMostOnce ==
  Cardinality({k \in 1..Len(history) : history[k].loaded}) <= 1

----------------------------------------------------------------------------
(* C16 *)

----------------------------------------------------------------------------
(* C17 *)

\* the utterance as written names the category g by the bare word only,
\* singular or plural: the word stands in it, and nowhere with a qualifier
\* next to it
MentionsBare(g) ==
  LET written == lower(strip(text))
      qualifiers == specific_indicators(g)
      words == {g, g \o <<"s">>}
  IN  /\ SearchWords(written, words)
      /\ \A k \in 1..Len(qualifiers) : \A w \in words :
           /\ ~SearchAdjacent(written, qualifiers[k], w)
           /\ ~SearchAdjacent(written, w, qualifiers[k])

\* the items parse_order returned that are variants of the category g
VariantsOf(g) ==
  {i \in 1..Len(result.items) : Contains(lower(result.items[i]), g)}

----------------------------------------------------------------------------
(* C18 *)

\* what the claim says fuzzy_match_menu_item returns for the query q and the
\* menu: ts and pr are <<index, score>> of the best candidate of the
\* token-order scorer and of the partial scorer, scores in thousandths
Claimed(q, menu) ==
  LET qn == normalize_text(q)
      choices == Tuple([i \in 1..Len(menu) |-> lower(menu[i])])
      equal == {i \in 1..Len(menu) : choices[i] = qn}
      ts == Best(TokenSortScores(qn, choices))
      pr == Best(PartialScores(qn, choices))
      first == IF ts[2] >= 70000 THEN ts ELSE <<0, 0>>
      final == IF first[2] < 85000 /\ pr[2] > first[2] /\ pr[2] >= 70000
               THEN pr ELSE first
  IN  IF q = <<>> \/ menu = <<>> THEN None
      ELSE IF equal # {} THEN <<menu[Least(equal)], 100000>>
      ELSE IF final[1] = 0 THEN None
      ELSE <<menu[final[1]], final[2]>>

\* C18: fuzzy_match_menu_item returns (m, 100) for the menu name m the
\* normalized query equals in lower case; otherwise the best candidate of
\* the token-order scorer if it scores 70 or more, replaced by the best
\* candidate of the partial scorer only where the first score (0 if
\* rejected) is below 85 and the partial score is greater and 70 or more;
\* None otherwise and for an empty query or menu; and never a score below 70.
C18_FuzzyMatchAsClaimed ==
  Returned("fuzzy_match_menu_item") =>
    /\ answer.value = Claimed(argument, menu_names)
    /\ answer.value # None => answer.value[2] >= 70000

\* for `2 chicken pizzas' the token-order scorer gives Chicken Pizza 89.6 and
\* the partial scorer 100, and the first was returned
C18_ConfidentScoreKept ==
  /\ Returned("fuzzy_match_menu_item")
  /\ argument = <<"2"," ","c","h","i","c","k","e","n"," ","p","i","z","z","a","s">>
  /\ menu_names = SampleMenu
  /\ answer.value[1] = <<"C","h","i","c","k","e","n"," ","P","i","z","z","a">>
  /\ answer.value[2] >= 85000
  /\ answer.value[2] < 100000

----------------------------------------------------------------------------
(* C19 *)

\* int() of the digits of t that start at i: the number, or the ValueError
\* it raises for more digits than it converts
Converted(t, i) == IF IntRaises(t, i) THEN Raised("ValueError") ELSE Some(int(t, i))

\* what the claim says extract_quantity_from_text returns for the fragment s
ClaimedQuantity(s, word2number) ==
  LET t == strip(lower(s))
      x == SearchDigitsX(t)
      d == SearchDigits(t)
      n == IF word2number THEN word_to_num(t) ELSE None
      words == {k \in 1..Len(quantity_words) : SearchWords(t, {quantity_words[k][1]})}
  IN  IF x # None THEN Converted(t, x[1])
      ELSE IF d # None THEN Converted(t, d[1])
      ELSE IF n # None THEN n
      ELSE IF words # {} THEN Some(quantity_words[Least(words)][2] \div 2)
      ELSE None

\* the parts that resolve to item; resolved[k] is what part k resolves to
PartsOf(resolved, item) ==
  {k \in 1..Len(resolved) : resolved[k] # None /\ resolved[k][1] = item}

\* the precedence of the extractor, and the quantity 1 of its two callers: the
\* generic-category path for the utterance, the clause extraction for each
\* part
ExtractorAndCallers ==
  /\ Returned("extract_quantity_from_text") =>
       answer.value = ClaimedQuantity(argument, w2n)
  /\ Parsed /\ result.intent = "order_food"
        /\ check_generic_items(strip(text), menu_names) # None
        /\ ClaimedQuantity(strip(text), w2n) = None
       => result.quantities = <<1>>
  /\ Extracting =>
       LET parts == Parts
           resolved == Tuple([k \in 1..Len(parts) |-> MatchPart(parts[k], menu_names)])
           first == FirstResolved(resolved)
       IN  \A i \in 1..Len(first) :
             (\A k \in PartsOf(resolved, first[i]) :
                ClaimedQuantity(parts[k], w2n) = None)
               => result.quantities[i] = Cardinality(PartsOf(resolved, first[i]))

\* the places in result.items of the items only the final sweep found
SweptPlaces ==
  LET parts == Parts
      resolved == Tuple([k \in 1..Len(parts) |-> MatchPart(parts[k], menu_names)])
  IN  (Len(FirstResolved(resolved)) + 1)..Len(result.items)

----------------------------------------------------------------------------
(* C20 *)

\* the category g qualifies as the claim has it: its word stands in the
\* normalized text, with no qualifier word next to it there, and no menu name
\* of several words is contained in the normalized text
Qualifies(g, s, menu) ==
  LET normalized == normalize_text(s)
      qualifiers == specific_indicators(g)
  IN  /\ SearchWords(normalized, {g})
      /\ \A k \in 1..Len(qualifiers) :
           /\ ~SearchAdjacent(normalized, qualifiers[k], g)
           /\ ~SearchAdjacent(normalized, g, qualifiers[k])
      /\ \A i \in 1..Len(menu) :
           Len(split(lower(menu[i]))) > 1 => ~Contains(normalized, lower(menu[i]))

\* C20: check_generic_items returns the first category, in the order pizza,
\* burger, whose word stands as a whole word in the normalized text with no
\* qualifier word right before or after it in that normalized text, provided
\* no menu name of several words is contained in the normalized text; and
\* None exactly when there is no such category.
C20_FirstUnqualifiedCategory ==
  Returned("check_generic_items") =>
    LET qualifying == {k \in 1..Len(generic_names) :
                         Qualifies(generic_names[k], argument, menu_names)}
    IN  answer.value = IF qualifying = {} THEN None
                       ELSE Some(generic_names[Least(qualifying)])

----------------------------------------------------------------------------
(* C21 *)

\* what the extractor returns for the utterance: <<items, quantities,
\* unclear_items>>
Extraction == extract_quantities_and_items_together(strip(text), menu_names, w2n)

\* C21: where the intent is order_food and no generic category is asked
\* about, parse_order asks about the unclear parts (needs_clarification,
\* clarification_type 'unclear_items', available_options = unclear_items)
\* exactly when the extractor returns no item and at least one unclear part;
\* otherwise needs_clarification is false and clarification_type is None.
C21_UnclearAskedExactlyWhenNothingResolved ==
  Extracting =>
    \E e \in {Extraction} :
      /\ result.items = e[1]
      /\ result.unclear_items = e[3]
      /\ IF e[1] = <<>> /\ e[3] # <<>>
         THEN /\ result.needs_clarification
              /\ result.clarification_type = Some(<<"u","n","c","l","e","a","r","_","i","t","e","m","s">>)
              /\ result.available_options = e[3]
         ELSE /\ ~result.needs_clarification
              /\ result.clarification_type = None

\* an order of which no part resolves: the parts are asked about
C21_NothingResolved ==
  /\ Extracting
  /\ result.items = <<>>
  /\ result.unclear_items # <<>>
  /\ result.needs_clarification
  /\ result.available_options = result.unclear_items

----------------------------------------------------------------------------
(* C22 *)

\* C22: in a call of classify_intent the classifier is reached only where no
\* rule group matches; where none matches, the label of the classifier is
\* returned if it answers with a score above 0.5, and unknown is returned if
\* it is absent, raises or scores 0.5 or less; the call returns an intent in
\* each of these cases.
C22_ClassifierLastAndAboveHalf ==
  Returned("classify_intent") =>
    /\ answer.call.status # "unasked" => GroupsMatching = {}
    /\ (GroupsMatching = {} /\ strip(lower(argument)) # <<>>) =>
         /\ answer.call.status # "unasked"
         /\ answer.value = IF answer.call.status = "answers" /\ answer.call.score > 500
                           THEN answer.call.label
                           ELSE "unknown"
    /\ answer.value \in Intents

\* no rule decides `zzzz', the classifier says order_food with a score of
\* exactly 0.5, and unknown was returned
C22_ScoreOfHalfRejected ==
  /\ Returned("classify_intent")
  /\ argument = <<"z","z","z","z">>
  /\ GroupsMatching = {}
  /\ answer.call = [status |-> "answers", label |-> "order_food", score |-> 500]
  /\ answer.value = "unknown"

----------------------------------------------------------------------------
(* C23 *)

\* <<items_dict, unclear_items>> as the loop over the parts leaves them, which
\* is what the final sweep starts from
AfterClauses ==
  LET parts == SplitParts(normalize_text(strip(text)), 1)
  IN  ClauseLoop(parts, Len(parts), menu_names, w2n)

\* the menu names the sweep is to add to items_dict d: those contained in the
\* normalized utterance that are not in d, by their place in the menu
ToSweep(d) ==
  {i \in 1..Len(menu_names) :
     /\ Contains(normalize_text(strip(text)), lower(menu_names[i]))
     /\ \A k \in 1..Len(d) : d[k][1] # menu_names[i]}

\* C23: the final sweep leaves every item the parts resolved with the total
\* the parts gave it, leaves unclear_items as they were, and adds each menu
\* name that is contained in the normalized utterance and not yet among the
\* items exactly once, with the integer that stands next to it, or 1 where
\* none does; it adds nothing else.
C23_SweepOnlyAdds ==
  Extracting =>
    \E loop \in {AfterClauses} : \E normalized \in {normalize_text(strip(text))} :
      /\ Len(result.items) >= Len(loop[1])
      /\ \A k \in 1..Len(loop[1]) :
           /\ result.items[k] = loop[1][k][1]
           /\ result.quantities[k] = loop[1][k][2]
      /\ result.unclear_items = loop[2]
      /\ \A i \in ToSweep(loop[1]) :
           \E j \in (Len(loop[1]) + 1)..Len(result.items) :
             /\ result.items[j] = menu_names[i]
             /\ \A n \in 1..Len(result.items) :
                  result.items[n] = menu_names[i] => n = j
             /\ \E nearby \in {NearbyQuantity(normalized, lower(menu_names[i]))} :
                  result.quantities[j] =
                    IF nearby = None THEN 1 ELSE int(normalized, nearby[1])
      /\ \A j \in (Len(loop[1]) + 1)..Len(result.items) :
           \E i \in ToSweep(loop[1]) : result.items[j] = menu_names[i]

\* `1 hot tea 2 coke' is one part, which resolves to Coke with the quantity
\* 1; the sweep skips Coke, though `2 coke' stands in the text, and adds Hot
\* Tea with the 2 that follows it
C23_SweepSkipsResolvedItem ==
  /\ Extracting
  /\ text = <<"1"," ","h","o","t"," ","t","e","a"," ","2"," ","c","o","k","e">>
  /\ menu_names = SampleMenu
  /\ AfterClauses = << << <<<<"C","o","k","e">>, 1>> >>, (<<>>) >>
  /\ ToSweep(AfterClauses[1]) = {4}
  /\ NearbyQuantity(normalize_text(text), <<"c","o","k","e">>) # None
  /\ result.items = <<<<"C","o","k","e">>, <<"H","o","t"," ","T","e","a">>>>
  /\ result.quantities = <<1, 2>>
  /\ result.unclear_items = <<>>

----------------------------------------------------------------------------
(* C24 *)

\* 1 where the condition holds and 0 where it does not
Holds(condition) == IF condition THEN 1 ELSE 0

\* the sum the claim gives for a call of calculate_confidence, in thousandths
ClaimedSum(s, intent, items, quantities) ==
  500
  + 300 * Holds(intent \in {"greeting", "help", "show_menu", "cancel_order", "view_orders"})
  + 300 * Holds(intent = "order_food" /\ items # <<>>)
  - 200 * Holds(intent = "order_food" /\ items = <<>>)
  + 200 * Holds(items # <<>>)
  + 100 * Holds(items # <<>> /\ Len(items) = Len(quantities))
  + 100 * Holds(\E phrase \in ordering_phrases : Contains(lower(s), phrase))
  + 100 * Holds(SearchNumber(s) /\ intent = "order_food")

\* C24: calculate_confidence returns that sum, or 0 where the sum is less
\* and 1 where it is more, for every combination of text, intent, items and
\* quantities.
C24_ConfidenceIsClampedSum ==
  Returned("calculate_confidence") =>
    \E sum \in {ClaimedSum(argument.text, argument.intent, argument.items,
                           argument.quantities)} :
      answer.value = IF sum < 0 THEN 0 ELSE IF sum > 1000 THEN 1000 ELSE sum

\* a combination parse_order never makes: a greeting with two items and one
\* quantity, and a number in the text, which counts for orders only:
\* 0.5 + 0.3 + 0.2
C24_GreetingWithItems ==
  /\ Returned("calculate_confidence")
  /\ argument = [text |-> <<"2"," ","c","o","k","e">>, intent |-> "greeting",
                 items |-> <<<<"C","o","k","e">>, <<"H","o","t"," ","T","e","a">>>>, quantities |-> <<1>>]
  /\ answer.value = 1000

----------------------------------------------------------------------------
(* C25 *)

\* C25 as stated: where parse_order asks which variant of a category is
\* meant, every option it offers is a name of the menu it was called with.
C25_OptionsOnMenu ==
  (Parsed /\ GenericAsked) =>
    \A k \in 1..Len(result.available_options) :
      \E i \in 1..Len(menu_names) : menu_names[i] = result.available_options[k]

\* C25, amended: the options are the variants configured for the category,
\* all of them and in the configured order, whatever the menu holds.
C25_OptionsAreConfiguredVariants ==
  (Parsed /\ GenericAsked) =>
    \E k \in 1..Len(generic_names) :
      /\ result.clarification_type = Some(generic_names[k])
      /\ result.available_options = generic_items(generic_names[k])

\* `piza' with a menu of two pizzas: Pepperoni Pizza is offered as well
C25_VariantOffMenuOffered ==
  /\ Parsed /\ GenericAsked
  /\ text = <<"p","i","z","a">>
  /\ menu_names = SampleMenu
  /\ result.available_options = <<<<"C","h","i","c","k","e","n"," ","P","i","z","z","a">>, <<"M","a","r","g","h","e","r","i","t","a"," ","P","i","z","z","a">>, <<"P","e","p","p","e","r","o","n","i"," ","P","i","z","z","a">>>>
  /\ \A i \in 1..Len(menu_names) : menu_names[i] # <<"P","e","p","p","e","r","o","n","i"," ","P","i","z","z","a">>

----------------------------------------------------------------------------
(* C26 *)

\* C26: fuzzy_match_menu_item called with a name of the menu returns that
\* name with the score 100.
C26_MenuNameMatchesItself ==
  (Returned("fuzzy_match_menu_item") /\ \E i \in 1..Len(menu_names) : menu_names[i] = argument)
    => answer.value = <<argument, EXACT_SCORE>>

----------------------------------------------------------------------------
(* C27 *)

\* C27: a result of parse_order with the intent order_food has the
\* confidence 1.0 if it has items, however they were matched and whatever
\* else the text holds, and a confidence of 0.5 at most if it has none.
C27_OrderConfidence ==
  (Parsed /\ result.intent = "order_food") =>
    IF result.items # <<>> THEN result.confidence = 1000
    ELSE result.confidence <= 500

\* an order of which one part stays unclear has the confidence 1.0
C27_UnclearPartFullConfidence ==
  /\ Parsed
  /\ text = <<"2"," ","c","h","i","c","k","e","n"," ","p","i","z","z","a"," ","a","n","d"," ","1"," ","u","n","k","n","o","w","n","_","i","t","e","m">>
  /\ result.intent = "order_food"
  /\ result.items = <<<<"C","h","i","c","k","e","n"," ","P","i","z","z","a">>>>
  /\ result.unclear_items = <<<<"1"," ","u","n","k","n","o","w","n","_","i","t","e","m">>>>
  /\ result.confidence = 1000

----------------------------------------------------------------------------
(* C28 *)

\* C28: the cancel flow never writes Cancelled to an order whose stored
\* status is Delivered or Cancelled when it writes; a request that names such
\* an order is answered with 400 and changes nothing; a request that names
\* none selects an order that is Pending or Confirmed; whatever PUT
\* /orders/<id>/status does in between.
C28_FinishedOrderNeverCancelled ==
  [][ /\ (cancel.step = "checked" /\ cancel'.step = "responded" /\ cancel'.response = 200)
         => orders[cancel.order_id] \notin {"Delivered", "Cancelled"}
      /\ (cancel.step = "start" /\ cancel.explicit /\ cancel'.step = "checked")
         => orders[cancel.order_id] \notin {"Delivered", "Cancelled"} /\ orders' = orders
      /\ (cancel.step = "start" /\ cancel.explicit /\ cancel'.response = 400)
         => orders' = orders
      /\ (cancel.step = "start" /\ ~cancel.explicit /\ cancel'.step = "checked")
         => orders[cancel'.order_id] \in {"Pending", "Confirmed"}
    ]_vars

----------------------------------------------------------------------------
(* C29 *)

\* C29: every element of items in a result of parse_order is, character for
\* character, an element of the menu_names of that call.
C29_ItemsAreMenuNames ==
  (Parsed /\ DOMAIN result = ResultFields) =>
    \A i \in 1..Len(result.items) :
      \E j \in 1..Len(menu_names) : result.items[i] = menu_names[j]

\* an item whose name the utterance does not hold even in lower case: a
\* misspelt or shortened fragment was resolved to the menu item
C29_ItemWrittenOtherwise ==
  /\ Parsed
  /\ DOMAIN result = ResultFields
  /\ \E i \in 1..Len(result.items) : ~Contains(lower(text), lower(result.items[i]))

----------------------------------------------------------------------------
(* C30 *)

\* C30: in every result of parse_order needs_clarification is true exactly
\* when clarification_type is not None, and where it is true the intent is
\* order_food, items is empty and available_options is not empty.
C30_ClarificationFieldsAgree ==
  (Parsed /\ DOMAIN result = ResultFields) =>
    /\ result.needs_clarification <=> result.clarification_type # None
    /\ result.needs_clarification =>
         /\ result.intent = "order_food"
         /\ result.items = <<>>
         /\ result.available_options # <<>>

\* a generic category is asked about, its variants offered and the quantity
\* of the utterance kept
C30_CategoryAskedWithOptions ==
  /\ Parsed
  /\ DOMAIN result = ResultFields
  /\ GenericAsked
  /\ result.intent = "order_food"
  /\ result.items = <<>>
  /\ Len(result.available_options) > 1
  /\ result.quantities # <<>>

====
